---- MODULE Spec2Model ----
(***************************************************************************)
(* Model of the invoice validator (src/invoice_qc/validator.py), of the    *)
(* pydantic schema it gates on (src/invoice_qc/schema.py), of the text     *)
(* extractor (src/invoice_qc/extractor.py, src/invoice_qc/utils/           *)
(* patterns.py) and of the API handlers that share one validator           *)
(* (src/api/app.py).                                                       *)
(*                                                                         *)
(* Monetary values are Python floats.  A decimal literal of c cents is     *)
(* stored as the IEEE-754 double nearest to c/100, and every + - * rounds  *)
(* again.  A double x near the cent grid is represented exactly as         *)
(*      x = ( c * 2^59 + e ) / ( 100 * 2^59 )                              *)
(* by the record [c |-> c, e |-> e]: c is the amount in cents and e the    *)
(* representation error in units of 2^-59 / 100 (2^-59 is the ulp of the   *)
(* double 0.01).  All arithmetic below is exact integer arithmetic on that *)
(* representation, so the comparisons against the 0.01 tolerance come out  *)
(* as CPython computes them.                                               *)
(***************************************************************************)
EXTENDS Integers, Sequences, FiniteSets, TLC

\* ------------------------------------------------------------------------
\* IEEE-754 binary64 arithmetic on values near the cent grid
\* ------------------------------------------------------------------------

\* 2^n for n in 0..30
Pow2Table ==
    <<1, 2, 4, 8, 16, 32, 64, 128, 256, 512, 1024, 2048, 4096, 8192, 16384,
      32768, 65536, 131072, 262144, 524288, 1048576, 2097152, 4194304,
      8388608, 16777216, 33554432, 67108864, 134217728, 268435456,
      536870912, 1073741824>>

Pow2(n) == Pow2Table[n + 1]

\* 2^n mod 200, by repeated squaring
RECURSIVE Pow2Mod200(_)
Pow2Mod200(n) ==
    IF n < 7 THEN Pow2(n)
    ELSE IF n % 2 = 1 THEN (2 * Pow2Mod200(n - 1)) % 200
    ELSE LET h == Pow2Mod200(n \div 2) IN (h * h) % 200

\* floor(log2(n)) for n >= 1
RECURSIVE Log2Floor(_)
Log2Floor(n) == IF n < 2 THEN 0 ELSE 1 + Log2Floor(n \div 2)

\* floor(log2(n)) for the whole parts 1..1024 of the amounts, computed once
Log2Table == SubSeq([n \in 1..1024 |-> Log2Floor(n)], 1, 1024)

\* the binary exponent k with 2^k <= x < 2^(k+1) of a positive value
\* x = [c, e], c >= 1.  The error e (below 2^-50) decides it only when c/100
\* is a power of two: 1.00 - 2^-54 lies in the binade below that of 1.00.
Binade(c, e) ==
    IF c >= 100
    THEN LET k == Log2Table[c \div 100]
         IN  IF c = 100 * Pow2(k) /\ e < 0 THEN k - 1 ELSE k
    ELSE IF c > 50 \/ (c = 50 /\ e >= 0) THEN -1
    ELSE IF c > 25 \/ (c = 25 /\ e >= 0) THEN -2
    ELSE IF c >= 13 THEN -3
    ELSE IF c >= 7 THEN -4
    ELSE IF c >= 4 THEN -5
    ELSE IF c >= 2 THEN -6
    ELSE -7

\* the double nearest to [c, e] on a grid of spacing M, where r is the
\* distance of [c, e] above the grid point below it and PT + e its offset
\* from an even grid point: round-to-nearest, ties-to-even
RoundOnGrid(c, e, M, PT, r) ==
    IF r = 0 THEN [c |-> c, e |-> e]
    ELSE IF 2 * r < M THEN [c |-> c, e |-> e - r]
    ELSE IF 2 * r > M THEN [c |-> c, e |-> e - r + M]
    ELSE IF (PT + e - r) % (2 * M) = 0 THEN [c |-> c, e |-> e - r]
    ELSE [c |-> c, e |-> e - r + M]

RoundWithin(c, e, M, PT) == RoundOnGrid(c, e, M, PT, (PT + e) % M)

\* rounding in binade k: the grid of doubles there has spacing 2^(k-52)
RoundInBinade(c, e, k) ==
    RoundWithin(c, e, 100 * Pow2(k + 7),
                Pow2(k + 7) * (((c % 200) * Pow2Mod200(52 - k)) % 200))

\* round-to-nearest, ties-to-even, of the exact non-negative value [c, e]
\* onto the grid of doubles of its binade
RoundPos(c, e) ==
    IF c = 0 THEN [c |-> 0, e |-> e]
    ELSE RoundInBinade(c, e, Binade(c, e))

IsNeg(x) == x.c < 0 \/ (x.c = 0 /\ x.e < 0)

Neg(x) == [c |-> -x.c, e |-> -x.e]

Round(c, e) ==
    IF c < 0 \/ (c = 0 /\ e < 0)
    THEN Neg(RoundPos(-c, -e))
    ELSE RoundPos(c, e)

\* the doubles denoted by the decimal literals -0.10 .. 400.00, computed
\* once: entry c + 11 is the double for a literal of c cents
DoubleOfCents == SubSeq([i \in 1..40011 |-> Round(i - 11, 0)], 1, 40011)

\* float("<c/100>")
FromCents(c) == DoubleOfCents[c + 11]

FAdd(x, y) == Round(x.c + y.c, x.e + y.e)

FSub(x, y) == Round(x.c - y.c, x.e - y.e)

\* q * x for a whole-number quantity q (exactly representable)
FMulInt(q, x) == Round(q * x.c, q * x.e)

FAbs(x) == IF IsNeg(x) THEN Neg(x) ELSE x

FGt(x, y) == x.c > y.c \/ (x.c = y.c /\ x.e > y.e)

FLt(x, y) == FGt(y, x)

FZero == [c |-> 0, e |-> 0]

\* ------------------------------------------------------------------------
\* Invoice records as they arrive (JSON-shaped mappings)
\* ------------------------------------------------------------------------

\* a key the mapping does not hold / the value None
Absent == "<absent>"

None == "<None>"

\* an Invoice without a date (invoice.due_date is None)
NoDate == 0

\* calendar dates the model knows, in calendar order: date d is ISODates[d]
ISODates == <<"2024-01-10", "2024-01-15", "2024-01-16", "2024-01-20">>

\* datetime texts with a zero time part, which pydantic accepts for a date
ISODateTimes == <<"2024-01-10T00:00:00", "2024-01-15T00:00:00",
                  "2024-01-16T00:00:00", "2024-01-20T00:00:00">>

\* pydantic's lax parsing of a date field: 0 when the text is no date
ParseDate(raw) ==
    IF \E d \in DOMAIN ISODates : ISODates[d] = raw
    THEN CHOOSE d \in DOMAIN ISODates : ISODates[d] = raw
    ELSE IF \E d \in DOMAIN ISODateTimes : ISODateTimes[d] = raw
    THEN CHOOSE d \in DOMAIN ISODateTimes : ISODateTimes[d] = raw
    ELSE NoDate

\* str(date): the ISO text of a date
DateStr(d) == ISODates[d]

\* str.upper() on the currency texts of the model
Upper(s) ==
    CASE s = "usd" -> "USD"
      [] s = "eur" -> "EUR"
      [] s = "inr" -> "INR"
      [] s = "xyz" -> "XYZ"
      [] OTHER -> s

\* str.strip() on the texts of the model (only " " has outer whitespace)
Strip(s) == IF s = " " THEN "" ELSE s

\* ------------------------------------------------------------------------
\* schema.py : LineItem and Invoice construction
\* ------------------------------------------------------------------------

\* one line of a pydantic ValidationError: location, error type, help URL
PydanticError(loc, type) == <<loc, type, "https", ":", "//errors.pydantic.dev">>

\* a required str field, optionally with min_length=1
StrFieldErrors(loc, v, min_length) ==
    IF v = Absent THEN PydanticError(loc, "missing")
    ELSE IF v = None THEN PydanticError(loc, "string_type")
    ELSE IF min_length = 1 /\ v = "" THEN PydanticError(loc, "string_too_short")
    ELSE <<>>

\* a float field with ge=0
AmountFieldErrors(loc, cents) ==
    IF IsNeg(FromCents(cents)) THEN PydanticError(loc, "greater_than_equal")
    ELSE <<>>

\* a validate_line_total with a tolerance of 0.02
validate_line_total_two_cents(quantity, unit_price, line_total) ==
    IF FGt(FAbs(FSub(line_total, FMulInt(quantity, unit_price))),
           FromCents(2))
    THEN PydanticError("line_items", "value_error")
    ELSE <<>>

\* LineItem.validate_line_total, on the constructed item
validate_line_total(quantity, unit_price, line_total) ==
    IF FGt(FAbs(FSub(line_total, FMulInt(quantity, unit_price))),
           FromCents(1))
    THEN PydanticError("line_items", "value_error")
    ELSE <<>>

\* model validators (mode='after') run only when every field validated
AfterFields(fieldErrors, validatorErrors) ==
    IF fieldErrors # <<>> THEN fieldErrors ELSE validatorErrors

\* the per-field errors of LineItem(**item), in field order
LineItemFieldErrors(item) ==
    StrFieldErrors("line_items.description", item.description, 0)
    \o (IF item.quantity < 0
        THEN PydanticError("line_items.quantity", "greater_than_equal")
        ELSE <<>>)
    \o AmountFieldErrors("line_items.unit_price", item.unit_price)
    \o AmountFieldErrors("line_items.line_total", item.line_total)

\* LineItem(**item): the field errors, else the model validator's error
LineItemErrors(item) ==
    AfterFields(LineItemFieldErrors(item),
                validate_line_total(item.quantity, FromCents(item.unit_price),
                                    FromCents(item.line_total)))

RECURSIVE LineItemsErrors(_)
LineItemsErrors(items) ==
    IF items = <<>> THEN <<>>
    ELSE LineItemErrors(Head(items)) \o LineItemsErrors(Tail(items))

\* a validate_currency that compares the text as given
validate_currency_case_sensitive(v) ==
    IF v \notin {"EUR", "USD", "INR"}
    THEN PydanticError("currency", "value_error")
    ELSE <<>>

\* Invoice.validate_currency
validate_currency(v) ==
    IF Upper(v) \notin {"EUR", "USD", "INR"}
    THEN PydanticError("currency", "value_error")
    ELSE <<>>

CurrencyFieldErrors(v) ==
    IF v = Absent THEN PydanticError("currency", "missing")
    ELSE IF v = None THEN PydanticError("currency", "string_type")
    ELSE validate_currency(v)

InvoiceDateErrors(v) ==
    IF v = Absent THEN PydanticError("invoice_date", "missing")
    ELSE IF v = None THEN PydanticError("invoice_date", "date_type")
    ELSE IF ParseDate(v) = NoDate
    THEN PydanticError("invoice_date", "date_from_datetime_parsing")
    ELSE <<>>

DueDateErrors(v) ==
    IF v \in {Absent, None} THEN <<>>
    ELSE IF ParseDate(v) = NoDate
    THEN PydanticError("due_date", "date_from_datetime_parsing")
    ELSE <<>>

\* the per-field errors of Invoice(**data), in field order
InvoiceFieldErrors(data) ==
    StrFieldErrors("invoice_number", data.invoice_number, 1)
    \o InvoiceDateErrors(data.invoice_date)
    \o DueDateErrors(data.due_date)
    \o StrFieldErrors("seller_name", data.seller_name, 1)
    \o StrFieldErrors("buyer_name", data.buyer_name, 1)
    \o CurrencyFieldErrors(data.currency)
    \o AmountFieldErrors("net_total", data.net_total)
    \o AmountFieldErrors("tax_amount", data.tax_amount)
    \o AmountFieldErrors("gross_total", data.gross_total)
    \o LineItemsErrors(data.line_items)

\* a validate_due_date that never raises
validate_due_date_never_raises(due_date, invoice_date) == <<>>

\* Invoice.validate_due_date, on the parsed dates
validate_due_date(due_date, invoice_date) ==
    IF due_date # NoDate /\ invoice_date # NoDate /\ due_date < invoice_date
    THEN PydanticError("Invoice", "value_error")
    ELSE <<>>

\* the error lines of Invoice(**data); <<>> when construction succeeds
InvoiceErrors(data) ==
    AfterFields(InvoiceFieldErrors(data),
                validate_due_date(
                    IF data.due_date \in {Absent, None} THEN NoDate
                    ELSE ParseDate(data.due_date),
                    ParseDate(data.invoice_date)))

LineItem(item) ==
    [description |-> item.description,
     quantity    |-> item.quantity,
     unit_price  |-> FromCents(item.unit_price),
     line_total  |-> FromCents(item.line_total)]

\* the constructed Invoice (only when InvoiceErrors(data) = <<>>)
Invoice(data) ==
    [invoice_number |-> data.invoice_number,
     invoice_date   |-> ParseDate(data.invoice_date),
     due_date       |-> IF data.due_date \in {Absent, None} THEN NoDate
                        ELSE ParseDate(data.due_date),
     seller_name    |-> data.seller_name,
     buyer_name     |-> data.buyer_name,
     currency       |-> Upper(data.currency),
     net_total      |-> FromCents(data.net_total),
     tax_amount     |-> FromCents(data.tax_amount),
     gross_total    |-> FromCents(data.gross_total),
     line_items     |-> [i \in DOMAIN data.line_items |->
                            LineItem(data.line_items[i])]]

\* ------------------------------------------------------------------------
\* validator.py : InvoiceValidator
\* ------------------------------------------------------------------------

\* An error string is the sequence of its tokens; the colon is a token of
\* its own, so that splitting at the first colon is a computation.
\* f"{category}: {detail}"
ErrorString(category, detail) == <<category, ":">> \o detail

\* f"{x:.2f}" of an amount: its cents
Fmt2(x) == ToString(x.c)

\* completeness checks that do not strip the text
validate_completeness_unstripped(invoice) ==
    (IF invoice.invoice_number = ""
     THEN <<ErrorString("missing_field", <<"invoice_number">>)>> ELSE <<>>)
    \o (IF invoice.invoice_date = NoDate
        THEN <<ErrorString("missing_field", <<"invoice_date">>)>> ELSE <<>>)
    \o (IF invoice.seller_name = ""
        THEN <<ErrorString("missing_field", <<"seller_name">>)>> ELSE <<>>)
    \o (IF invoice.buyer_name = ""
        THEN <<ErrorString("missing_field", <<"buyer_name">>)>> ELSE <<>>)

validate_completeness(invoice) ==
    (IF invoice.invoice_number = "" \/ Strip(invoice.invoice_number) = ""
     THEN <<ErrorString("missing_field", <<"invoice_number">>)>> ELSE <<>>)
    \o (IF invoice.invoice_date = NoDate
        THEN <<ErrorString("missing_field", <<"invoice_date">>)>> ELSE <<>>)
    \o (IF invoice.seller_name = "" \/ Strip(invoice.seller_name) = ""
        THEN <<ErrorString("missing_field", <<"seller_name">>)>> ELSE <<>>)
    \o (IF invoice.buyer_name = "" \/ Strip(invoice.buyer_name) = ""
        THEN <<ErrorString("missing_field", <<"buyer_name">>)>> ELSE <<>>)

validate_format(invoice) ==
    (IF FLt(invoice.net_total, FZero)
     THEN <<ErrorString("format_error", <<"net_total", "must", "be", ">=", "0">>)>>
     ELSE <<>>)
    \o (IF FLt(invoice.tax_amount, FZero)
        THEN <<ErrorString("format_error", <<"tax_amount", "must", "be", ">=", "0">>)>>
        ELSE <<>>)
    \o (IF FLt(invoice.gross_total, FZero)
        THEN <<ErrorString("format_error", <<"gross_total", "must", "be", ">=", "0">>)>>
        ELSE <<>>)

\* sum(item.line_total for item in line_items): left to right from 0
RECURSIVE SumLineTotals(_, _)
SumLineTotals(acc, items) ==
    IF items = <<>> THEN acc
    ELSE SumLineTotals(FAdd(acc, Head(items).line_total), Tail(items))

\* the check of the line items' sum against net_total
totals_mismatch(line_items_sum, net_total, tolerance) ==
    IF FGt(FAbs(FSub(line_items_sum, net_total)), tolerance)
    THEN <<ErrorString("business_rule_failed",
               <<"totals_mismatch", Fmt2(line_items_sum), Fmt2(net_total)>>)>>
    ELSE <<>>

\* the check of net_total + tax_amount against gross_total
gross_total_mismatch(expected_gross, gross_total, tolerance) ==
    IF FGt(FAbs(FSub(expected_gross, gross_total)), tolerance)
    THEN <<ErrorString("business_rule_failed",
               <<"gross_total_mismatch", Fmt2(expected_gross),
                 Fmt2(gross_total)>>)>>
    ELSE <<>>

\* the check of due_date against invoice_date
due_date_before_invoice_date(invoice) ==
    IF invoice.due_date # NoDate /\ invoice.invoice_date # NoDate
       /\ invoice.due_date < invoice.invoice_date
    THEN <<ErrorString("business_rule_failed",
               <<"due_date_before_invoice_date",
                 DateStr(invoice.due_date), DateStr(invoice.invoice_date)>>)>>
    ELSE <<>>

validate_business_rules(invoice) ==
    totals_mismatch(SumLineTotals(FZero, invoice.line_items),
                    invoice.net_total, FromCents(1))
    \o gross_total_mismatch(FAdd(invoice.net_total, invoice.tax_amount),
                            invoice.gross_total, FromCents(1))
    \o due_date_before_invoice_date(invoice)

\* the key _validate_anomalies builds
duplicate_key(invoice) ==
    <<invoice.invoice_number, invoice.seller_name,
      IF invoice.invoice_date # NoDate THEN DateStr(invoice.invoice_date)
      ELSE None>>

\* an anomaly check that never records a key
validate_anomalies_never_records(seen, invoice) ==
    IF duplicate_key(invoice) \in seen
    THEN [errors |-> <<ErrorString("anomaly_detected",
                          <<"duplicate_invoice", invoice.invoice_number,
                            invoice.seller_name,
                            DateStr(invoice.invoice_date)>>)>>,
          seen   |-> seen]
    ELSE [errors |-> <<>>, seen |-> seen]

\* _validate_anomalies: the errors and the tracking set afterwards
validate_anomalies(seen, invoice) ==
    IF duplicate_key(invoice) \in seen
    THEN [errors |-> <<ErrorString("anomaly_detected",
                          <<"duplicate_invoice", invoice.invoice_number,
                            invoice.seller_name,
                            IF invoice.invoice_date # NoDate
                            THEN DateStr(invoice.invoice_date) ELSE None>>)>>,
          seen   |-> seen]
    ELSE [errors |-> <<>>, seen |-> seen \cup {duplicate_key(invoice)}]

\* an identifier that prefers the invoice number
get_invoice_number_first(invoice_data) ==
    IF invoice_data.invoice_number # Absent THEN invoice_data.invoice_number
    ELSE IF invoice_data.invoice_id # Absent THEN invoice_data.invoice_id
    ELSE "unknown"

\* invoice_data.get("invoice_id", invoice_data.get("invoice_number", "unknown"))
get_invoice_id(invoice_data) ==
    IF invoice_data.invoice_id # Absent THEN invoice_data.invoice_id
    ELSE IF invoice_data.invoice_number # Absent THEN invoice_data.invoice_number
    ELSE "unknown"

\* error.split(":")[0] if ":" in error else "unknown"
error_type(error) ==
    IF \E i \in DOMAIN error : error[i] = ":"
    THEN SubSeq(error, 1,
             (CHOOSE i \in DOMAIN error :
                 error[i] = ":" /\ \A j \in 1..(i - 1) : error[j] # ":") - 1)
    ELSE <<"unknown">>

\* error_counts[error_type] += 1 on a Counter
CounterInc(counter, key) ==
    IF key \in DOMAIN counter
    THEN [counter EXCEPT ![key] = @ + 1]
    ELSE [k \in DOMAIN counter \cup {key} |->
             IF k = key THEN 1 ELSE counter[k]]

\* a count of the first error of each result only
count_first_error_only(error_counts, errors) ==
    IF errors = <<>> THEN error_counts
    ELSE CounterInc(error_counts, error_type(Head(errors)))

RECURSIVE count_errors(_, _)
count_errors(error_counts, errors) ==
    IF errors = <<>> THEN error_counts
    ELSE count_errors(CounterInc(error_counts, error_type(Head(errors))),
                      Tail(errors))

\* ------------------------------------------------------------------------
\* The records the callers pass
\* ------------------------------------------------------------------------

Item(quantity, unit_price, line_total) ==
    [description |-> "Item 1", quantity |-> quantity,
     unit_price |-> unit_price, line_total |-> line_total]

\* a record that passes every check: one item 1 x 100.00, 100 + 10 = 110
Base ==
    [invoice_id     |-> Absent,
     invoice_number |-> "INV-001",
     invoice_date   |-> "2024-01-15",
     due_date       |-> Absent,
     seller_name    |-> "Seller",
     seller_address |-> None,
     seller_tax_id  |-> None,
     buyer_name     |-> "Buyer",
     buyer_address  |-> None,
     buyer_tax_id   |-> None,
     currency       |-> "USD",
     net_total      |-> 10000,
     tax_amount     |-> 1000,
     gross_total    |-> 11000,
     line_items     |-> <<Item(1, 10000, 10000)>>]

\* the records of a validator session
Records ==
    { Base,
      \* another invoice
      [Base EXCEPT !.invoice_number = "INV-002", !.invoice_date = "2024-01-16"],
      \* test_format_validation: currency outside the allowed set, which
      \* the schema rejects; same number, seller and date as the first
      [Base EXCEPT !.currency = "XYZ", !.line_items = <<>>],
      \* test_duplicate_detection (no line items against net_total 100),
      \* arriving as a document: identifier given, date as datetime text
      [Base EXCEPT !.invoice_id = "doc-1",
                   !.invoice_date = "2024-01-15T00:00:00",
                   !.line_items = <<>>] }

\* single records over the field values the schema distinguishes
HeaderRecords ==
    { [Base EXCEPT !.invoice_id = id, !.invoice_number = num,
                   !.invoice_date = dt, !.due_date = due,
                   !.seller_name = seller, !.buyer_name = buyer,
                   !.currency = cur, !.net_total = net,
                   !.tax_amount = tax, !.gross_total = gross] :
        id \in {Absent, "doc-1"},
        num \in {Absent, "", " ", "INV-001"},
        dt \in {Absent, None, "not a date", "2024-01-15"},
        due \in {Absent, "2024-01-10", "2024-01-15"},
        seller \in {"", "Seller"},
        buyer \in {"", "Buyer"},
        cur \in {Absent, "USD", "usd", "XYZ"},
        net \in {-1, 5000, 10000, 10001},
        tax \in {-1, 1000},
        gross \in {-1, 11000, 12000} }

\* line items around the identity line_total = quantity * unit_price
Items ==
    { Item(q, p, q * p + d) :
        q \in 0..3, p \in {0, 1, 5, 10, 1000, 10000}, d \in (-2)..2 }

ItemRecords ==
    { [Base EXCEPT !.line_items = <<it>>, !.net_total = net,
                   !.gross_total = net + 1000] :
        it \in Items, net \in {0, 2000, 2001, 10000} }
    \cup
    { [Base EXCEPT !.line_items = <<Item(2, 1000, lt), it>>] :
        lt \in {2000, 2001, 2002}, it \in {Item(1, 8000, 8000), Item(1, 10, 12)} }

\* test_completeness_validation: empty invoice_number, no line items
CompletenessTestRecord ==
    [Base EXCEPT !.invoice_number = "", !.line_items = <<>>]

\* quantity 2 at unit_price 10.00 against line_total 20.00, 20.02, 21.00
ToleranceRecords ==
    { [Base EXCEPT !.line_items = <<Item(2, 1000, lt)>>, !.net_total = lt,
                   !.gross_total = lt + 1000] :
        lt \in {2000, 2002, 2100} }

\* required text that is whitespace only: longer than min_length asks, and
\* empty once stripped
BlankTextRecords ==
    { [Base EXCEPT !.invoice_number = num, !.seller_name = seller,
                   !.buyer_name = buyer] :
        num \in {" ", "INV-001"}, seller \in {" ", "Seller"},
        buyer \in {" ", "Buyer"} }

AllRecords ==
    Records \cup HeaderRecords \cup ItemRecords \cup {CompletenessTestRecord}
    \cup ToleranceRecords \cup BlankTextRecords

\* ------------------------------------------------------------------------
\* validator.py : validate, validate_batch, reset_duplicate_tracking
\* ------------------------------------------------------------------------

\* the outcome of the try block for the error lines errs of the construction
TryOutcome(errs, invoice_data) ==
    IF errs # <<>>
    THEN [raised  |-> TRUE,
          message |-> <<"validation", "errors", "for", "Invoice">> \o errs]
    ELSE [raised  |-> FALSE, invoice |-> Invoice(invoice_data)]

\* try: invoice = Invoice(**invoice_data) / except Exception as e: str(e)
TryInvoice(invoice_data) == TryOutcome(InvoiceErrors(invoice_data), invoice_data)

\* rule families that stop at the first family reporting an error
first_family_with_errors(invoice) ==
    IF validate_completeness(invoice) # <<>>
    THEN validate_completeness(invoice)
    ELSE IF validate_format(invoice) # <<>> THEN validate_format(invoice)
    ELSE validate_business_rules(invoice)

\* the three rule families that do not read self.seen_invoices, in the
\* order validate extends errors with them
stateless_rule_errors(invoice) ==
    validate_completeness(invoice)
    \o validate_format(invoice)
    \o validate_business_rules(invoice)

\* the return of the except branch
schema_error_return(seen, invoice_id, message) ==
    [result |-> [invoice_id |-> invoice_id,
                 is_valid   |-> FALSE,
                 errors     |-> <<ErrorString("schema_error", message)>>],
     seen   |-> seen]

\* the return after the rules: errors extended by the four families
rules_return(invoice_id, rule_errors, anomalies) ==
    [result |-> [invoice_id |-> invoice_id,
                 is_valid   |-> Len(rule_errors \o anomalies.errors) = 0,
                 errors     |-> rule_errors \o anomalies.errors],
     seen   |-> anomalies.seen]

\* a validate whose except branch records the key of the rejected record
tried_recording_rejected(seen, invoice_data, try) ==
    IF try.raised
    THEN schema_error_return(
             seen \cup {<<invoice_data.invoice_number, invoice_data.seller_name,
                          DateStr(ParseDate(invoice_data.invoice_date))>>},
             get_invoice_id(invoice_data), try.message)
    ELSE rules_return(get_invoice_id(invoice_data),
                      stateless_rule_errors(try.invoice),
                      validate_anomalies(seen, try.invoice))

\* a validate that tracks the key only of a record without rule errors
tried_tracking_valid_only(seen, invoice_data, try) ==
    IF try.raised
    THEN schema_error_return(seen, get_invoice_id(invoice_data), try.message)
    ELSE rules_return(get_invoice_id(invoice_data),
                      stateless_rule_errors(try.invoice),
                      IF stateless_rule_errors(try.invoice) = <<>>
                      THEN validate_anomalies(seen, try.invoice)
                      ELSE [errors |-> validate_anomalies(seen, try.invoice).errors,
                            seen   |-> seen])

\* validate after the try block
validate_tried(seen, invoice_data, try) ==
    IF try.raised
    THEN schema_error_return(seen, get_invoice_id(invoice_data), try.message)
    ELSE rules_return(get_invoice_id(invoice_data),
                      stateless_rule_errors(try.invoice),
                      validate_anomalies(seen, try.invoice))

\* an except branch that goes on to the completeness rule on the raw record
schema_error_then_completeness(seen, invoice_data, message) ==
    [result |-> [invoice_id |-> get_invoice_id(invoice_data),
                 is_valid   |-> FALSE,
                 errors     |->
                     <<ErrorString("schema_error", message)>>
                     \o (IF invoice_data.invoice_number
                            \in {Absent, None, "", " "}
                         THEN <<ErrorString("missing_field",
                                            <<"invoice_number">>)>>
                         ELSE <<>>)],
     seen   |-> seen]

tried_rules_after_schema_error(seen, invoice_data, try) ==
    IF try.raised
    THEN schema_error_then_completeness(seen, invoice_data, try.message)
    ELSE rules_return(get_invoice_id(invoice_data),
                      stateless_rule_errors(try.invoice),
                      validate_anomalies(seen, try.invoice))

\* a validate that goes on to the completeness rules, on the raw record,
\* after a construction failure
validate_rules_after_schema_error(seen, invoice_data) ==
    tried_rules_after_schema_error(seen, invoice_data,
                                   TryInvoice(invoice_data))

\* a return whose is_valid is settled before the anomaly rules run
return_valid_before_anomalies(invoice_id, rule_errors, anomalies) ==
    [result |-> [invoice_id |-> invoice_id,
                 is_valid   |-> Len(rule_errors) = 0,
                 errors     |-> rule_errors \o anomalies.errors],
     seen   |-> anomalies.seen]

tried_valid_before_anomalies(seen, invoice_data, try) ==
    IF try.raised
    THEN schema_error_return(seen, get_invoice_id(invoice_data), try.message)
    ELSE return_valid_before_anomalies(
             get_invoice_id(invoice_data),
             stateless_rule_errors(try.invoice),
             validate_anomalies(seen, try.invoice))

\* a validate that settles is_valid before the anomaly rules run
validate_valid_before_anomalies(seen, invoice_data) ==
    tried_valid_before_anomalies(seen, invoice_data, TryInvoice(invoice_data))

\* InvoiceValidator.validate with self.seen_invoices = seen:
\* the returned result and self.seen_invoices afterwards
validate(seen, invoice_data) ==
    validate_tried(seen, invoice_data, TryInvoice(invoice_data))

\* the state of validate_batch's loop: self.seen_invoices, results and
\* error_counts
LoopState(seen, results, error_counts) ==
    [seen |-> seen, results |-> results, error_counts |-> error_counts]

\* a loop body whose errors list is not emptied between records: a result
\* starts with the errors of the result before it
after_record_shared_errors(run, v) ==
    LoopState(v.seen,
              Append(run.results,
                     [v.result EXCEPT
                        !.errors = (IF run.results = <<>> THEN <<>>
                                    ELSE run.results[Len(run.results)].errors)
                                   \o @]),
              count_errors(run.error_counts, v.result.errors))

\* one pass of the loop body, v being what validate returned
after_record(run, v) ==
    LoopState(v.seen, Append(run.results, v.result),
              count_errors(run.error_counts, v.result.errors))

\* a loop that gives up at the first record that fails construction
RECURSIVE batch_loop_stops_at_schema_error(_, _, _)
batch_loop_stops_at_schema_error(run, invoices, i) ==
    IF i > Len(invoices) THEN run
    ELSE IF TryInvoice(invoices[i]).raised
    THEN after_record(run, validate(run.seen, invoices[i]))
    ELSE batch_loop_stops_at_schema_error(
             after_record(run, validate(run.seen, invoices[i])),
             invoices, i + 1)

\* the loop of validate_batch from record i on
RECURSIVE batch_loop(_, _, _)
batch_loop(run, invoices, i) ==
    IF i > Len(invoices) THEN run
    ELSE batch_loop(after_record(run, validate(run.seen, invoices[i])),
                    invoices, i + 1)

\* what validate_batch returns after its loop, and the tracking set then
batch_return(run, invoices) ==
    LET valid_count   == Cardinality({i \in DOMAIN run.results :
                                         run.results[i].is_valid})
        invalid_count == Len(run.results) - valid_count
    IN  [report |-> [results |-> run.results,
                     summary |-> [total_invoices   |-> Len(invoices),
                                  valid_invoices   |-> valid_count,
                                  invalid_invoices |-> invalid_count,
                                  error_counts     |-> run.error_counts]],
         seen   |-> run.seen]

\* validate_batch after the clear: the loop from the tracking set `start`,
\* then the summary
batch_report(start, invoices) ==
    batch_return(batch_loop(LoopState(start, <<>>, <<>>), invoices, 1),
                 invoices)

\* a validate_batch that does not clear the tracking set
validate_batch_keeps_seen(seen, invoices) == batch_report(seen, invoices)

\* a validate_batch that clears the tracking set on return, not on entry
validate_batch_clears_last(seen, invoices) ==
    [report |-> batch_report(seen, invoices).report, seen |-> {}]

\* InvoiceValidator.validate_batch with self.seen_invoices = seen:
\* self.seen_invoices.clear(), then the loop and the summary
validate_batch(seen, invoices) == batch_report({}, invoices)

\* a reset that leaves the tracking set as it is
reset_keeps_seen(seen) == seen

\* InvoiceValidator.reset_duplicate_tracking
reset_duplicate_tracking(seen) == {}

\* ------------------------------------------------------------------------
\* One InvoiceValidator and its caller
\* ------------------------------------------------------------------------

\* calls per session, records per session, records per batch
MaxCalls == 3

MaxRecords == 3

MaxBatch == 3

\* calls of a caller that repeats its call
MaxRepeatCalls == 4

\* requests the API has in hand at a time
MaxRequests == 2

VARIABLES
    seen_invoices,   \* self.seen_invoices
    calls,           \* the completed calls, oldest first
    handlers         \* the API's request handlers: where each one stands

vars == <<seen_invoices, calls, handlers>>

\* a request handler: its endpoint, where it stands (idle, received,
\* reading: suspended at `await file.read()` of file k, done), the request
\* body, the invoices extracted so far and the response once it is done
Handler(endpoint, at, body, k, extracted, response) ==
    [endpoint |-> endpoint, at |-> at, body |-> body, k |-> k,
     extracted |-> extracted, response |-> response]

\* no request yet
NoRequest == Handler("", "idle", <<>>, 0, <<>>, <<>>)

\* the summary slot of a call that returns none
NoSummary ==
    [total_invoices |-> 0, valid_invoices |-> 0, invalid_invoices |-> 0,
     error_counts |-> <<>>]

\* a completed call: operation, records passed, tracking set before and
\* after, results returned (one for validate) and the batch summary
Call(op, arg, pre, post, results, summary) ==
    [op |-> op, arg |-> arg, pre |-> pre, post |-> post,
     results |-> results, summary |-> summary]

RECURSIVE RecordsPassed(_)
RecordsPassed(cs) ==
    IF cs = <<>> THEN 0 ELSE Len(Head(cs).arg) + RecordsPassed(Tail(cs))

Batches(S) == UNION { [1..n -> S] : n \in 0..MaxBatch }

\* validator = InvoiceValidator()
Init ==
    /\ seen_invoices = {}
    /\ calls = <<>>
    /\ handlers = [r \in 1..MaxRequests |-> NoRequest]

\* v returned by validate(invoice_data)
ValidateReturns(invoice_data, v) ==
    /\ seen_invoices' = v.seen
    /\ calls' = Append(calls, Call("validate", <<invoice_data>>,
                           seen_invoices, v.seen, <<v.result>>, NoSummary))
    /\ UNCHANGED handlers

DoValidate(invoice_data) ==
    ValidateReturns(invoice_data, validate(seen_invoices, invoice_data))

\* b returned by validate_batch(invoices)
ValidateBatchReturns(invoices, b) ==
    /\ seen_invoices' = b.seen
    /\ calls' = Append(calls, Call("validate_batch", invoices,
                           seen_invoices, b.seen, b.report.results,
                           b.report.summary))
    /\ UNCHANGED handlers

DoValidateBatch(invoices) ==
    ValidateBatchReturns(invoices, validate_batch(seen_invoices, invoices))

ResetReturns(cleared) ==
    /\ seen_invoices' = cleared
    /\ calls' = Append(calls, Call("reset_duplicate_tracking", <<>>,
                           seen_invoices, cleared, <<>>, NoSummary))
    /\ UNCHANGED handlers

DoReset == ResetReturns(reset_duplicate_tracking(seen_invoices))

\* --- any caller: validate, validate_batch and reset in any order
Validate ==
    /\ Len(calls) < MaxCalls
    /\ RecordsPassed(calls) < MaxRecords
    /\ \E invoice_data \in Records : DoValidate(invoice_data)

ValidateBatch ==
    /\ Len(calls) < MaxCalls
    /\ \E invoices \in Batches(Records) :
          /\ RecordsPassed(calls) + Len(invoices) <= MaxRecords
          /\ DoValidateBatch(invoices)

Reset ==
    /\ Len(calls) < MaxCalls
    /\ DoReset

Next == Validate \/ ValidateBatch \/ Reset

Spec == Init /\ [][Next]_vars

\* --- one call on a new validator, over the wide record set
ValidateOne ==
    /\ calls = <<>>
    /\ \E invoice_data \in AllRecords : DoValidate(invoice_data)

ValidateBatchOne ==
    /\ calls = <<>>
    /\ \E invoice_data \in AllRecords : DoValidateBatch(<<invoice_data>>)

NextOne == ValidateOne \/ ValidateBatchOne

SpecOne == Init /\ [][NextOne]_vars

\* --- a caller that repeats its last call, with or without a reset between
IsReset(call) == call.op = "reset_duplicate_tracking"

\* the caller's most recent call that passed records
RECURSIVE LastPassing(_)
LastPassing(cs) ==
    IF ~IsReset(cs[Len(cs)]) THEN cs[Len(cs)]
    ELSE LastPassing(SubSeq(cs, 1, Len(cs) - 1))

FirstValidate ==
    /\ calls = <<>>
    /\ \E invoice_data \in Records : DoValidate(invoice_data)

FirstBatch ==
    /\ Len(calls) <= 1
    /\ \A i \in DOMAIN calls : calls[i].op = "validate"
    /\ \E invoices \in Batches(Records) : DoValidateBatch(invoices)

Again ==
    /\ calls # <<>>
    /\ Len(calls) < MaxRepeatCalls
    /\ LET last == LastPassing(calls)
       IN  IF last.op = "validate" THEN DoValidate(last.arg[1])
           ELSE DoValidateBatch(last.arg)

ResetBetween ==
    /\ calls # <<>>
    /\ Len(calls) < MaxRepeatCalls
    /\ ~IsReset(calls[Len(calls)])
    /\ DoReset

NextRepeat == FirstValidate \/ FirstBatch \/ Again \/ ResetBetween

SpecRepeat == Init /\ [][NextRepeat]_vars

\* --- a caller that validates one record, of the wide record set, twice
ValidateFirst ==
    /\ calls = <<>>
    /\ \E invoice_data \in AllRecords : DoValidate(invoice_data)

ValidateSame ==
    /\ Len(calls) = 1
    /\ DoValidate(calls[1].arg[1])

NextTwice == ValidateFirst \/ ValidateSame

SpecTwice == Init /\ [][NextTwice]_vars

\* --- a caller that validates two batches, one after the other
BatchA ==
    /\ calls = <<>>
    /\ \E invoices \in Batches(Records) : DoValidateBatch(invoices)

BatchB ==
    /\ Len(calls) = 1
    /\ \E invoices \in Batches(Records) : DoValidateBatch(invoices)

NextPair == BatchA \/ BatchB

SpecPair == Init /\ [][NextPair]_vars

\* ------------------------------------------------------------------------
\* Vocabulary of the properties
\* ------------------------------------------------------------------------

StartsWith(s, p) == Len(s) >= Len(p) /\ SubSeq(s, 1, Len(p)) = p

Includes(s, p) ==
    \E k \in 0..(Len(s) - Len(p)) : SubSeq(s, k + 1, k + Len(p)) = p

\* constructing the Invoice from the record succeeds
ShapeValid(invoice_data) == ~TryInvoice(invoice_data).raised

\* (invoice_number, seller_name, invoice_date as text) of a shape-valid record
KeyAsText(invoice_data) ==
    <<invoice_data.invoice_number, invoice_data.seller_name,
      DateStr(ParseDate(invoice_data.invoice_date))>>

IsDuplicateError(error) ==
    StartsWith(error, <<"anomaly_detected", ":", "duplicate_invoice">>)

HasDuplicateError(result) ==
    \E k \in DOMAIN result.errors : IsDuplicateError(result.errors[k])

IsSchemaError(error) == StartsWith(error, <<"schema_error", ":">>)

RuleCategories ==
    {"missing_field", "format_error", "business_rule_failed", "anomaly_detected"}

IsBatch(call) == call.op = "validate_batch"

IsValidate(call) == call.op = "validate"

\* the call that has just returned.  Every call is the latest call of the
\* state it returns in, so a property of the latest call in every reachable
\* state is a property of every call.
Latest == calls[Len(calls)]

Returned == calls # <<>>

\* ------------------------------------------------------------------------
\* C1..C5
\* ------------------------------------------------------------------------

\* C1: whatever validate / validate_batch / reset calls came before on the
\* same validator, the report a validate_batch call returns (results and
\* summary) is the report a newly constructed validator, whose tracking set
\* is empty, returns for the same batch.
C1_BatchReportAsFresh ==
    (Returned /\ IsBatch(Latest)) =>
        LET fresh == validate_batch({}, Latest.arg).report
        IN  /\ Latest.results = fresh.results
            /\ Latest.summary = fresh.summary

\* a batch call that started with the key of one of its shape-valid records
\* already tracked, and did not flag that record
C1_Witness ==
    \E i \in DOMAIN calls :
        /\ IsBatch(calls[i])
        /\ \E k \in DOMAIN calls[i].arg :
              /\ ShapeValid(calls[i].arg[k])
              /\ KeyAsText(calls[i].arg[k]) \in calls[i].pre
              /\ ~HasDuplicateError(calls[i].results[k])

\* C2: within one validate_batch call a shape-valid record at position k
\* carries an anomaly_detected: duplicate_invoice error exactly when a
\* shape-valid record at an earlier position has the same key, so the first
\* occurrence of a key is never flagged and every later one is.
C2_DuplicateIffEarlierSameKey ==
    (Returned /\ IsBatch(Latest)) =>
        LET valid == [k \in DOMAIN Latest.arg |-> ShapeValid(Latest.arg[k])]
        IN  \A k \in DOMAIN Latest.arg :
                valid[k] =>
                    (HasDuplicateError(Latest.results[k])
                     <=> \E j \in 1..(k - 1) :
                            /\ valid[j]
                            /\ KeyAsText(Latest.arg[j])
                               = KeyAsText(Latest.arg[k]))

\* a batch of three shape-valid occurrences of one key: the first not
\* flagged, the second and the third flagged
C2_Witness ==
    \E i \in DOMAIN calls :
        /\ IsBatch(calls[i])
        /\ Len(calls[i].arg) = 3
        /\ \A k \in 1..3 :
              /\ ShapeValid(calls[i].arg[k])
              /\ KeyAsText(calls[i].arg[k]) = KeyAsText(calls[i].arg[1])
        /\ ~HasDuplicateError(calls[i].results[1])
        /\ HasDuplicateError(calls[i].results[2])
        /\ HasDuplicateError(calls[i].results[3])

\* C3: validating the same shape-valid record twice in a row with validate
\* flags the second call as duplicate_invoice, and the first is not flagged
\* when the validator had not tracked the key before it; with
\* reset_duplicate_tracking between the two calls the second is not flagged.
C3_SecondValidateFlaggedUnlessReset ==
    \A i \in DOMAIN calls :
        (IsValidate(calls[i]) /\ ShapeValid(calls[i].arg[1])) =>
            /\ KeyAsText(calls[i].arg[1]) \notin calls[i].pre
                  => ~HasDuplicateError(calls[i].results[1])
            /\ (i + 1 \in DOMAIN calls /\ IsValidate(calls[i + 1])
                /\ calls[i + 1].arg = calls[i].arg)
                  => HasDuplicateError(calls[i + 1].results[1])
            /\ (i + 2 \in DOMAIN calls /\ IsReset(calls[i + 1])
                /\ IsValidate(calls[i + 2])
                /\ calls[i + 2].arg = calls[i].arg)
                  => ~HasDuplicateError(calls[i + 2].results[1])

\* validate, validate (flagged), reset, validate (not flagged) of one record
C3_Witness ==
    /\ Len(calls) = 4
    /\ IsValidate(calls[1]) /\ IsValidate(calls[2])
    /\ IsReset(calls[3]) /\ IsValidate(calls[4])
    /\ ShapeValid(calls[1].arg[1])
    /\ calls[2].arg = calls[1].arg /\ calls[4].arg = calls[1].arg
    /\ ~HasDuplicateError(calls[1].results[1])
    /\ HasDuplicateError(calls[2].results[1])
    /\ ~HasDuplicateError(calls[4].results[1])

C5_ValidIffNoErrors ==
    Returned =>
        \A k \in DOMAIN Latest.results :
            Latest.results[k].is_valid <=> Latest.results[k].errors = <<>>

\* one call that returned a clean result, a result rejected at construction
\* and a result whose only error is the duplicate flag
C5_Witness ==
    \E i \in DOMAIN calls :
        /\ \E k \in DOMAIN calls[i].results :
              calls[i].results[k].is_valid
        /\ \E k \in DOMAIN calls[i].results :
              /\ ~ShapeValid(calls[i].arg[k])
              /\ ~calls[i].results[k].is_valid
        /\ \E k \in DOMAIN calls[i].results :
              /\ Len(calls[i].results[k].errors) = 1
              /\ IsDuplicateError(calls[i].results[k].errors[1])
              /\ ~calls[i].results[k].is_valid

\* ------------------------------------------------------------------------
\* C6..C10
\* ------------------------------------------------------------------------

\* the text of an error before its first colon
BeforeFirstColon(error) ==
    LET n == CHOOSE n \in 0..Len(error) :
                 /\ \A j \in 1..n : error[j] # ":"
                 /\ n = Len(error) \/ error[n + 1] = ":"
    IN  SubSeq(error, 1, n)

\* the error strings of a call, as (result position, error position)
ErrorEntries(call) ==
    UNION { { <<k, m>> : m \in DOMAIN call.results[k].errors } :
            k \in DOMAIN call.results }

RECURSIVE SumValues(_)
SumValues(counter) ==
    IF DOMAIN counter = {} THEN 0
    ELSE LET key == CHOOSE key \in DOMAIN counter : TRUE
         IN  counter[key]
             + SumValues([k \in DOMAIN counter \ {key} |-> counter[k]])

\* C6: for a batch of N records of which K came out invalid the summary
\* has total_invoices = N, valid_invoices = N - K, invalid_invoices = K,
\* the values of error_counts add up to the number of error strings of all
\* results, and each error is counted under its text before the first colon.
C6_SummaryCounts ==
    (Returned /\ IsBatch(Latest)) =>
        LET N  == Len(Latest.arg)
            K  == Cardinality({k \in DOMAIN Latest.results :
                                  ~Latest.results[k].is_valid})
            E  == ErrorEntries(Latest)
            ec == Latest.summary.error_counts
            Category(p) ==
                BeforeFirstColon(Latest.results[p[1]].errors[p[2]])
        IN  /\ Latest.summary.total_invoices = N
            /\ Latest.summary.valid_invoices = N - K
            /\ Latest.summary.invalid_invoices = K
            /\ SumValues(ec) = Cardinality(E)
            /\ \A p \in E : Category(p) \in DOMAIN ec
            /\ \A c \in DOMAIN ec :
                  ec[c] = Cardinality({p \in E : Category(p) = c})

\* a batch with valid and invalid records, one of them with two errors of
\* different categories
C6_Witness ==
    \E i \in DOMAIN calls :
        /\ IsBatch(calls[i])
        /\ calls[i].summary.valid_invoices > 0
        /\ calls[i].summary.invalid_invoices > 1
        /\ \E k \in DOMAIN calls[i].results :
              /\ Len(calls[i].results[k].errors) >= 2
              /\ BeforeFirstColon(calls[i].results[k].errors[1])
                 # BeforeFirstColon(calls[i].results[k].errors[2])

\* the errors of a result other than the duplicate flag
RECURSIVE WithoutDuplicateErrors(_)
WithoutDuplicateErrors(errors) ==
    IF errors = <<>> THEN <<>>
    ELSE IF IsDuplicateError(Head(errors))
    THEN WithoutDuplicateErrors(Tail(errors))
    ELSE <<Head(errors)>> \o WithoutDuplicateErrors(Tail(errors))

\* C7: validate_batch returns one result per input record in input order:
\* result k carries record k's identifier and, the duplicate flag aside,
\* the errors record k gets on its own; a record that fails construction
\* does not stop the batch, the records after it are validated and reported.
C7_OneResultPerRecordInOrder ==
    (Returned /\ IsBatch(Latest)) =>
        /\ Len(Latest.results) = Len(Latest.arg)
        /\ \A k \in DOMAIN Latest.arg :
              LET record == Latest.arg[k]
                  result == Latest.results[k]
              IN  /\ result.invoice_id =
                        (IF record.invoice_id # Absent
                         THEN record.invoice_id
                         ELSE record.invoice_number)
                  /\ WithoutDuplicateErrors(result.errors)
                        = validate({}, record).result.errors

\* a batch whose first record fails construction and whose second and
\* third records, of different identifiers, are reported after it
C7_Witness ==
    \E i \in DOMAIN calls :
        /\ IsBatch(calls[i])
        /\ Len(calls[i].results) = 3
        /\ ~ShapeValid(calls[i].arg[1])
        /\ calls[i].results[1].errors # <<>>
        /\ IsSchemaError(calls[i].results[1].errors[1])
        /\ calls[i].results[2].is_valid
        /\ calls[i].results[2].invoice_id # calls[i].results[3].invoice_id
        /\ calls[i].results[3].errors # <<>>
        /\ ~IsSchemaError(calls[i].results[3].errors[1])

\* C8: validate_batch, reset_duplicate_tracking, validate_batch with the
\* same batch on one validator: the two calls return the same sequence of
\* results (invoice_id, is_valid and errors equal at every position).
C8_SameBatchAfterResetSameResults ==
    \A i \in DOMAIN calls :
        (/\ i + 2 \in DOMAIN calls
         /\ IsBatch(calls[i]) /\ IsReset(calls[i + 1]) /\ IsBatch(calls[i + 2])
         /\ calls[i + 2].arg = calls[i].arg)
            => calls[i + 2].results = calls[i].results

\* a validate, then a batch holding the validated record twice, a reset
\* and the batch again: in both runs only the second occurrence is flagged
C8_Witness ==
    /\ Len(calls) = 4
    /\ IsValidate(calls[1]) /\ IsBatch(calls[2])
    /\ IsReset(calls[3]) /\ IsBatch(calls[4])
    /\ calls[4].arg = calls[2].arg
    /\ Len(calls[2].arg) >= 2
    /\ calls[2].arg[1] = calls[1].arg[1]
    /\ calls[2].arg[2] = calls[1].arg[1]
    /\ \A c \in {2, 4} :
          /\ ~HasDuplicateError(calls[c].results[1])
          /\ HasDuplicateError(calls[c].results[2])

\* the record is well-formed apart from its invoice_number
WellFormedButNumber(invoice_data) ==
    ShapeValid([invoice_data EXCEPT !.invoice_number = "INV-001"])

\* C9: validate of a record whose invoice_number is the empty string, all
\* other fields well-formed, returns is_valid = false and an error that
\* includes "missing_field: invoice_number".
C9_EmptyNumberReportedMissing ==
    \A i \in DOMAIN calls :
        (/\ IsValidate(calls[i])
         /\ calls[i].arg[1].invoice_number = ""
         /\ WellFormedButNumber(calls[i].arg[1]))
            => /\ ~calls[i].results[1].is_valid
               /\ \E k \in DOMAIN calls[i].results[1].errors :
                     Includes(calls[i].results[1].errors[k],
                              <<"missing_field", ":", "invoice_number">>)

\* |line_total - quantity * unit_price| <= 0.01, in exact cents
WithinOneCent(item) ==
    LET d == item.line_total - item.quantity * item.unit_price
    IN  d <= 1 /\ -d <= 1

NonNegative(item) ==
    item.quantity >= 0 /\ item.unit_price >= 0 /\ item.line_total >= 0

\* C10: a line item with non-negative quantity, unit_price and line_total
\* is accepted at construction exactly when |line_total - quantity *
\* unit_price| <= 0.01, and a record with a line item outside that
\* tolerance gets a schema_error from validate, not business_rule_failed.
C10_LineItemValidIffWithinCent ==
    \A i \in DOMAIN calls :
        IsValidate(calls[i]) =>
            LET record == calls[i].arg[1]
                result == calls[i].results[1]
            IN  /\ \A k \in DOMAIN record.line_items :
                      NonNegative(record.line_items[k]) =>
                          (LineItemErrors(record.line_items[k]) = <<>>
                           <=> WithinOneCent(record.line_items[k]))
                /\ (\E k \in DOMAIN record.line_items :
                       /\ NonNegative(record.line_items[k])
                       /\ ~WithinOneCent(record.line_items[k]))
                      => /\ Len(result.errors) = 1
                         /\ IsSchemaError(result.errors[1])

\* ------------------------------------------------------------------------
\* C11..C20
\* ------------------------------------------------------------------------

\* the record is well-formed apart from its line items
WellFormedButItems(invoice_data) ==
    ShapeValid([invoice_data EXCEPT !.line_items = <<>>])

\* the record holds the one line item quantity 2, unit_price 10.00 with
\* this line_total
TwoAtTen(invoice_data, line_total) ==
    /\ WellFormedButItems(invoice_data)
    /\ Len(invoice_data.line_items) = 1
    /\ invoice_data.line_items[1].quantity = 2
    /\ invoice_data.line_items[1].unit_price = 1000
    /\ invoice_data.line_items[1].line_total = line_total

RejectedAtShape(result) ==
    /\ ~result.is_valid
    /\ Len(result.errors) = 1
    /\ IsSchemaError(result.errors[1])

AcceptedAtShape(result) ==
    \A k \in DOMAIN result.errors : ~IsSchemaError(result.errors[k])

\* C11 as stated: a line item of quantity 2 at unit_price 10.00 is accepted
\* at construction with line_total 20.02 as with 20.00, and rejected with
\* line_total 21.00.
C11_TwentyPointZeroTwoAccepted ==
    (Returned /\ IsValidate(Latest)) =>
        /\ (TwoAtTen(Latest.arg[1], 2000) \/ TwoAtTen(Latest.arg[1], 2002))
              => AcceptedAtShape(Latest.results[1])
        /\ TwoAtTen(Latest.arg[1], 2100) => RejectedAtShape(Latest.results[1])

\* C11 amended: a line item of quantity 2 at unit_price 10.00 is accepted at
\* construction with line_total 20.00 and rejected, with a schema_error,
\* with line_total 20.02 (0.02 off, outside the tolerance) and with 21.00.
C11_TwentyPointZeroTwoRejected ==
    (Returned /\ IsValidate(Latest)) =>
        /\ TwoAtTen(Latest.arg[1], 2000) => AcceptedAtShape(Latest.results[1])
        /\ (TwoAtTen(Latest.arg[1], 2002) \/ TwoAtTen(Latest.arg[1], 2100))
              => RejectedAtShape(Latest.results[1])

\* validate returned a schema_error for the item with line_total 20.02
C11_Witness ==
    /\ Returned /\ IsValidate(Latest)
    /\ TwoAtTen(Latest.arg[1], 2002)
    /\ RejectedAtShape(Latest.results[1])

\* the sum of the line items' line_total, in exact cents
RECURSIVE SumCents(_)
SumCents(items) ==
    IF items = <<>> THEN 0 ELSE Head(items).line_total + SumCents(Tail(items))

\* |a - b| > 0.01, in exact cents
MoreThanOneCentApart(a, b) == a - b > 1 \/ b - a > 1

HasBusinessError(result, rule) ==
    \E k \in DOMAIN result.errors :
        StartsWith(result.errors[k], <<"business_rule_failed", ":", rule>>)

\* C12: for every shape-valid record the result of validate contains a
\* business_rule_failed: totals_mismatch error exactly when the sum of the
\* line items' line_total differs from net_total by more than 0.01, an
\* empty line_items summing to 0.
C12_TotalsMismatchIffMoreThanCent ==
    (Returned /\ IsValidate(Latest) /\ ShapeValid(Latest.arg[1])) =>
        (HasBusinessError(Latest.results[1], "totals_mismatch")
         <=> MoreThanOneCentApart(SumCents(Latest.arg[1].line_items),
                                  Latest.arg[1].net_total))

\* C13: for every shape-valid record the result of validate contains a
\* business_rule_failed: gross_total_mismatch error exactly when net_total
\* + tax_amount differs from gross_total by more than 0.01, whether or not
\* totals_mismatch is raised as well.
C13_GrossMismatchIffMoreThanCent ==
    (Returned /\ IsValidate(Latest) /\ ShapeValid(Latest.arg[1])) =>
        (HasBusinessError(Latest.results[1], "gross_total_mismatch")
         <=> MoreThanOneCentApart(
                 Latest.arg[1].net_total + Latest.arg[1].tax_amount,
                 Latest.arg[1].gross_total))

\* the record gives both dates as dates
BothDates(invoice_data) ==
    /\ invoice_data.due_date \notin {Absent, None}
    /\ invoice_data.invoice_date \notin {Absent, None}
    /\ ParseDate(invoice_data.due_date) # NoDate
    /\ ParseDate(invoice_data.invoice_date) # NoDate

DueBeforeInvoice(invoice_data) ==
    /\ BothDates(invoice_data)
    /\ ParseDate(invoice_data.due_date) < ParseDate(invoice_data.invoice_date)

DueOnInvoiceDate(invoice_data) ==
    /\ BothDates(invoice_data)
    /\ ParseDate(invoice_data.due_date) = ParseDate(invoice_data.invoice_date)

\* the record is well-formed apart from its due_date
WellFormedButDue(invoice_data) ==
    ShapeValid([invoice_data EXCEPT !.due_date = Absent])

\* C14: a record whose due_date is earlier than its invoice_date is
\* rejected by validate at construction, with a schema_error and is_valid =
\* false; no result of validate contains business_rule_failed:
\* due_date_before_invoice_date; a due_date equal to invoice_date is
\* accepted.
C14_DueDateRejectedAtShape ==
    (Returned /\ IsValidate(Latest)) =>
        /\ DueBeforeInvoice(Latest.arg[1])
              => RejectedAtShape(Latest.results[1])
        /\ ~HasBusinessError(Latest.results[1], "due_date_before_invoice_date")
        /\ (DueOnInvoiceDate(Latest.arg[1]) /\ WellFormedButDue(Latest.arg[1]))
              => AcceptedAtShape(Latest.results[1])

\* validate rejected, with a schema_error, a record that is well-formed
\* but for its due_date lying before its invoice_date
C14_Witness ==
    /\ Returned /\ IsValidate(Latest)
    /\ DueBeforeInvoice(Latest.arg[1])
    /\ WellFormedButDue(Latest.arg[1])
    /\ RejectedAtShape(Latest.results[1])

\* the record is well-formed apart from its currency
WellFormedButCurrency(invoice_data) ==
    ShapeValid([invoice_data EXCEPT !.currency = "USD"])

\* C15: currency is matched against {EUR, USD, INR} without regard to case
\* and normalized to upper case: records with currency usd and USD both
\* pass construction and the constructed Invoice holds USD; a record with
\* currency XYZ fails with is_valid = false and a schema_error.
C15_CurrencyNormalized ==
    (Returned /\ IsValidate(Latest) /\ WellFormedButCurrency(Latest.arg[1])) =>
        /\ Latest.arg[1].currency \in {"usd", "USD"}
              => /\ AcceptedAtShape(Latest.results[1])
                 /\ TryInvoice(Latest.arg[1]).invoice.currency = "USD"
        /\ Latest.arg[1].currency = "XYZ"
              => RejectedAtShape(Latest.results[1])

\* validate found a record with currency usd valid
C15_Witness ==
    /\ Returned /\ IsValidate(Latest)
    /\ Latest.arg[1].currency = "usd"
    /\ Latest.results[1].is_valid

\* what the stateless rules report for the constructed invoice, each rule
\* taken alone, in the order completeness, format, totals_mismatch,
\* gross_total_mismatch, due date
EachRuleAlone(invoice) ==
    validate_completeness(invoice)
    \o validate_format(invoice)
    \o totals_mismatch(SumLineTotals(FZero, invoice.line_items),
                       invoice.net_total, FromCents(1))
    \o gross_total_mismatch(FAdd(invoice.net_total, invoice.tax_amount),
                            invoice.gross_total, FromCents(1))
    \o due_date_before_invoice_date(invoice)

\* errors is expected, followed by the duplicate flag exactly when flagged
InOrderThenDuplicate(errors, expected, flagged) ==
    IF flagged
    THEN /\ Len(errors) = Len(expected) + 1
         /\ SubSeq(errors, 1, Len(expected)) = expected
         /\ IsDuplicateError(errors[Len(errors)])
    ELSE errors = expected

\* C16: for a shape-valid record no rule family cuts the others short: the
\* result of validate carries the error of every violated rule, in the
\* order completeness, format, business (totals_mismatch, then
\* gross_total_mismatch, then due date), anomaly.
C16_AllRuleErrorsInOrder ==
    (Returned /\ IsValidate(Latest) /\ ShapeValid(Latest.arg[1])) =>
        InOrderThenDuplicate(Latest.results[1].errors,
                             EachRuleAlone(TryInvoice(Latest.arg[1]).invoice),
                             KeyAsText(Latest.arg[1]) \in Latest.pre)

\* a result that carries missing_field, totals_mismatch,
\* gross_total_mismatch and the duplicate flag, in this order
C16_Witness ==
    /\ Returned /\ IsValidate(Latest)
    /\ Len(Latest.results[1].errors) = 4
    /\ StartsWith(Latest.results[1].errors[1], <<"missing_field", ":">>)
    /\ StartsWith(Latest.results[1].errors[2],
                  <<"business_rule_failed", ":", "totals_mismatch">>)
    /\ StartsWith(Latest.results[1].errors[3],
                  <<"business_rule_failed", ":", "gross_total_mismatch">>)
    /\ IsDuplicateError(Latest.results[1].errors[4])

\* C17: in a batch one record influences another record's result through
\* duplicate detection only: two batches that hold the same record at
\* position i, whatever the other positions hold, return at position i the
\* same invoice_id and, the duplicate flag removed, the same errors.
C17_OtherRecordsOnlyFlagDuplicates ==
    Len(calls) = 2 =>
        \A i \in DOMAIN calls[1].arg \cap DOMAIN calls[2].arg :
            calls[1].arg[i] = calls[2].arg[i] =>
                /\ calls[1].results[i].invoice_id
                      = calls[2].results[i].invoice_id
                /\ WithoutDuplicateErrors(calls[1].results[i].errors)
                      = WithoutDuplicateErrors(calls[2].results[i].errors)

\* two batches with different first records and the same second record,
\* which has an error of its own and is flagged as duplicate in the first
\* batch only
C17_Witness ==
    /\ Len(calls) = 2
    /\ Len(calls[1].arg) >= 2 /\ Len(calls[2].arg) >= 2
    /\ calls[1].arg[1] # calls[2].arg[1]
    /\ calls[1].arg[2] = calls[2].arg[2]
    /\ HasDuplicateError(calls[1].results[2])
    /\ ~HasDuplicateError(calls[2].results[2])
    /\ calls[2].results[2].errors # <<>>

\* ------------------------------------------------------------------------
\* Texts and the regular expressions of src/invoice_qc/utils/patterns.py
\* ------------------------------------------------------------------------

\* A text is a sequence of one-character strings.  A compiled pattern is a
\* sequence of elements, matched left to right by backtracking exactly as
\* module re does: alternatives in the order written, greedy repeats longest
\* first, lazy repeats shortest first.

ascii_lowercase ==
    <<"a", "b", "c", "d", "e", "f", "g", "h", "i", "j", "k", "l", "m",
      "n", "o", "p", "q", "r", "s", "t", "u", "v", "w", "x", "y", "z">>

ascii_uppercase ==
    <<"A", "B", "C", "D", "E", "F", "G", "H", "I", "J", "K", "L", "M",
      "N", "O", "P", "Q", "R", "S", "T", "U", "V", "W", "X", "Y", "Z">>

digits == <<"0", "1", "2", "3", "4", "5", "6", "7", "8", "9">>

whitespace == {" ", "\t", "\n", "\r", "\f"}

\* [a-z], [A-Z] and \d as sets of characters
LowerCase == {ascii_lowercase[k] : k \in 1..26}

UpperCase == {ascii_uppercase[k] : k \in 1..26}

Digit == {digits[k] : k \in 1..10}

\* a character class as re.IGNORECASE reads it
IgnoreCase(S) ==
    S \cup {ascii_uppercase[k] : k \in {j \in 1..26 : ascii_lowercase[j] \in S}}
      \cup {ascii_lowercase[k] : k \in {j \in 1..26 : ascii_uppercase[j] \in S}}

\* str.upper() of one character and of a text
UpperChar(c) ==
    IF c \in LowerCase
    THEN ascii_uppercase[CHOOSE k \in 1..26 : ascii_lowercase[k] = c]
    ELSE c

ToUpper(text) == SubSeq([k \in 1..Len(text) |-> UpperChar(text[k])], 1, Len(text))

\* elements of a pattern: a literal word (rs: the class of each of its
\* characters); a run of lo..hi characters in (or, with neg, not in) the
\* class s, greedy or lazy, hi = -1 being "no upper limit"; a choice (rs:
\* the alternatives); a repeated group; the opening and closing of capture
\* group lo; ^ under re.MULTILINE
Element(t, s, neg, rs, lo, hi) ==
    [t |-> t, s |-> s, neg |-> neg, rs |-> rs, lo |-> lo, hi |-> hi]

Word(classes) == Element("word", {}, FALSE, classes, 0, 0)

Run(S, lo, hi) == Element("run", S, FALSE, <<>>, lo, hi)

RunNot(S, lo, hi) == Element("run", S, TRUE, <<>>, lo, hi)

LazyRun(S, lo, hi) == Element("lazy", S, FALSE, <<>>, lo, hi)

LazyRunNot(S, lo, hi) == Element("lazy", S, TRUE, <<>>, lo, hi)

Alt(alternatives) == Element("alt", {}, FALSE, alternatives, 0, 0)

\* (?:body){lo,hi}, greedy
Rep(body, lo, hi) == Element("rep", {}, FALSE, body, lo, hi)

Open(n) == Element("open", {}, FALSE, <<>>, n, 0)

Close(n) == Element("close", {}, FALSE, <<>>, n, 0)

Bol == Element("bol", {}, FALSE, <<>>, 0, 0)

\* one character of a class, and class*, class+, class?
One(S) == Run(S, 1, 1)

Star(S) == Run(S, 0, -1)

Plus(S) == Run(S, 1, -1)

Opt(S) == Run(S, 0, 1)

\* ( body ) as capture group n
Group(n, body) == <<Open(n)>> \o body \o <<Close(n)>>

\* a literal word, case-sensitive and under re.IGNORECASE
L(word) == <<Word(SubSeq([k \in 1..Len(word) |-> {word[k]}], 1, Len(word)))>>

I(word) ==
    <<Word(SubSeq([k \in 1..Len(word) |-> IgnoreCase({word[k]})], 1, Len(word)))>>

\* the outcome of a match attempt: a match began at b and ends before
\* position e >= 1; caps[n] is <<start, end>> of group n; e = 0 is "no match"
NoCaps == <<<<0, 0>>, <<0, 0>>, <<0, 0>>, <<0, 0>>>>

NoMatch == [b |-> 0, e |-> 0, caps |-> NoCaps]

OrElse(m, otherwise) == IF m.e # 0 THEN m ELSE otherwise

Fewer(n) == IF n > 0 THEN n - 1 ELSE n

\* character c is in the class of element h
Has(h, c) == (c \in h.s) # h.neg

\* the word h stands at position i
WordAt(h, text, i) ==
    /\ i + Len(h.rs) - 1 <= Len(text)
    /\ \A k \in 1..Len(h.rs) : text[i + k - 1] \in h.rs[k]

\* the most characters a run of h may take at position i
RunLimit(h, text, i) ==
    IF h.hi >= 0 /\ h.hi < Len(text) - i + 1 THEN h.hi ELSE Len(text) - i + 1

\* the length of the longest run of h at position i, at most limit
RunLength(h, text, i, limit) ==
    CHOOSE m \in 0..limit :
        /\ m = limit \/ ~Has(h, text[i + m])
        /\ \A j \in 0..(m - 1) : Has(h, text[i + j])

\* the first of four attempts, in this order, that is a match
FirstOf4(m1, m2, m3, m4) ==
    CASE m1 # NoMatch -> m1
      [] m1 = NoMatch /\ m2 # NoMatch -> m2
      [] m1 = NoMatch /\ m2 = NoMatch /\ m3 # NoMatch -> m3
      [] OTHER -> m4

\* the first of sixteen attempts, in this order, that is a match
FirstOf16(m1, m2, m3, m4, m5, m6, m7, m8,
          m9, m10, m11, m12, m13, m14, m15, m16) ==
    CASE m1 # NoMatch -> m1
      [] m1 = NoMatch /\ m2 # NoMatch -> m2
      [] m1 = NoMatch /\ m2 = NoMatch /\ m3 # NoMatch -> m3
      [] m1 = NoMatch /\ m2 = NoMatch /\ m3 = NoMatch /\ m4 # NoMatch -> m4
      [] m1 = NoMatch /\ m2 = NoMatch /\ m3 = NoMatch /\ m4 = NoMatch
           /\ m5 # NoMatch -> m5
      [] m1 = NoMatch /\ m2 = NoMatch /\ m3 = NoMatch /\ m4 = NoMatch
           /\ m5 = NoMatch /\ m6 # NoMatch -> m6
      [] m1 = NoMatch /\ m2 = NoMatch /\ m3 = NoMatch /\ m4 = NoMatch
           /\ m5 = NoMatch /\ m6 = NoMatch /\ m7 # NoMatch -> m7
      [] m1 = NoMatch /\ m2 = NoMatch /\ m3 = NoMatch /\ m4 = NoMatch
           /\ m5 = NoMatch /\ m6 = NoMatch /\ m7 = NoMatch /\ m8 # NoMatch -> m8
      [] m1 = NoMatch /\ m2 = NoMatch /\ m3 = NoMatch /\ m4 = NoMatch
           /\ m5 = NoMatch /\ m6 = NoMatch /\ m7 = NoMatch /\ m8 = NoMatch
           /\ m9 # NoMatch -> m9
      [] m1 = NoMatch /\ m2 = NoMatch /\ m3 = NoMatch /\ m4 = NoMatch
           /\ m5 = NoMatch /\ m6 = NoMatch /\ m7 = NoMatch /\ m8 = NoMatch
           /\ m9 = NoMatch /\ m10 # NoMatch -> m10
      [] m1 = NoMatch /\ m2 = NoMatch /\ m3 = NoMatch /\ m4 = NoMatch
           /\ m5 = NoMatch /\ m6 = NoMatch /\ m7 = NoMatch /\ m8 = NoMatch
           /\ m9 = NoMatch /\ m10 = NoMatch /\ m11 # NoMatch -> m11
      [] m1 = NoMatch /\ m2 = NoMatch /\ m3 = NoMatch /\ m4 = NoMatch
           /\ m5 = NoMatch /\ m6 = NoMatch /\ m7 = NoMatch /\ m8 = NoMatch
           /\ m9 = NoMatch /\ m10 = NoMatch /\ m11 = NoMatch /\ m12 # NoMatch -> m12
      [] m1 = NoMatch /\ m2 = NoMatch /\ m3 = NoMatch /\ m4 = NoMatch
           /\ m5 = NoMatch /\ m6 = NoMatch /\ m7 = NoMatch /\ m8 = NoMatch
           /\ m9 = NoMatch /\ m10 = NoMatch /\ m11 = NoMatch /\ m12 = NoMatch
           /\ m13 # NoMatch -> m13
      [] m1 = NoMatch /\ m2 = NoMatch /\ m3 = NoMatch /\ m4 = NoMatch
           /\ m5 = NoMatch /\ m6 = NoMatch /\ m7 = NoMatch /\ m8 = NoMatch
           /\ m9 = NoMatch /\ m10 = NoMatch /\ m11 = NoMatch /\ m12 = NoMatch
           /\ m13 = NoMatch /\ m14 # NoMatch -> m14
      [] m1 = NoMatch /\ m2 = NoMatch /\ m3 = NoMatch /\ m4 = NoMatch
           /\ m5 = NoMatch /\ m6 = NoMatch /\ m7 = NoMatch /\ m8 = NoMatch
           /\ m9 = NoMatch /\ m10 = NoMatch /\ m11 = NoMatch /\ m12 = NoMatch
           /\ m13 = NoMatch /\ m14 = NoMatch /\ m15 # NoMatch -> m15
      [] OTHER -> m16

\* the least power of 4 that is at least n, from w on
RECURSIVE Width(_, _)
Width(n, w) == IF w >= n THEN w ELSE Width(n, 4 * w)

\* the number of lengths that a run of h may have at position i
Lengths(h, text, i) == RunLength(h, text, i, RunLimit(h, text, i)) - h.lo + 1

\* a match that begins at position i and is empty so far
Begun(i) == [b |-> i, e |-> i, caps |-> NoCaps]

RECURSIVE MatchHere(_, _, _)
RECURSIVE FirstAlternative(_, _, _, _, _, _)
RECURSIVE FirstRun(_, _, _, _, _, _, _, _)

\* the first of the n > 1 lengths of a run of h that the rest can follow:
\* the longest for a greedy run, the shortest for a lazy one
RunOf(h, n, rest, text, m) ==
    FirstRun(rest, text, m, IF h.t = "run" THEN h.lo + n - 1 ELSE h.lo,
             IF h.t = "run" THEN -1 ELSE 1, 1, Width(n, 1), n)

\* the first way, in backtracking order, to go on with the elements rs
\* from the match m so far, which ends before position m.e of text
MatchHere(rs, text, m) ==
    CASE Len(rs) = 0 -> m
      [] Len(rs) > 0 /\ rs[1].t = "word" ->
           IF WordAt(rs[1], text, m.e)
           THEN MatchHere(Tail(rs), text, [m EXCEPT !.e = @ + Len(rs[1].rs)])
           ELSE NoMatch
      [] Len(rs) > 0 /\ rs[1].t \in {"run", "lazy"} /\ Lengths(rs[1], text, m.e) = 1 ->
           MatchHere(Tail(rs), text, [m EXCEPT !.e = @ + rs[1].lo])
      [] Len(rs) > 0 /\ rs[1].t \in {"run", "lazy"} /\ Lengths(rs[1], text, m.e) # 1 ->
           RunOf(rs[1], Lengths(rs[1], text, m.e), Tail(rs), text, m)
      [] Len(rs) > 0 /\ rs[1].t = "alt" ->
           FirstAlternative(rs[1].rs, 1, Width(Len(rs[1].rs), 1), Tail(rs), text, m)
      [] Len(rs) > 0 /\ rs[1].t = "rep" ->
           OrElse(IF rs[1].hi # 0
                  THEN MatchHere(rs[1].rs
                                   \o <<Rep(rs[1].rs, Fewer(rs[1].lo), Fewer(rs[1].hi))>>
                                   \o Tail(rs), text, m)
                  ELSE NoMatch,
                  IF rs[1].lo = 0 THEN MatchHere(Tail(rs), text, m) ELSE NoMatch)
      [] Len(rs) > 0 /\ rs[1].t = "open" ->
           MatchHere(Tail(rs), text, [m EXCEPT !.caps[rs[1].lo] = <<m.e, m.e>>])
      [] Len(rs) > 0 /\ rs[1].t = "close" ->
           MatchHere(Tail(rs), text, [m EXCEPT !.caps[rs[1].lo][2] = m.e])
      [] Len(rs) > 0 /\ rs[1].t = "bol" ->
           IF m.e = 1 \/ text[m.e - 1] = "\n"
           THEN MatchHere(Tail(rs), text, m) ELSE NoMatch

\* the first of the alternatives k .. k + w - 1, in the order written, that
\* the rest can follow; the alternatives are tried a quarter at a time
FirstAlternative(alternatives, k, w, rest, text, m) ==
    CASE k > Len(alternatives) -> NoMatch
      [] k <= Len(alternatives) /\ w = 1 ->
           MatchHere(alternatives[k] \o rest, text, m)
      [] OTHER ->
           FirstOf4(
             FirstAlternative(alternatives, k, w \div 4, rest, text, m),
             FirstAlternative(alternatives, k + w \div 4, w \div 4, rest, text, m),
             FirstAlternative(alternatives, k + 2 * (w \div 4), w \div 4, rest, text, m),
             FirstAlternative(alternatives, k + 3 * (w \div 4), w \div 4, rest, text, m))

\* a run has n possible lengths, the j-th being first + step * (j - 1):
\* hi, hi - 1, ... lo for a greedy run, lo, lo + 1, ... hi for a lazy one.
\* The first of the lengths k .. k + w - 1, in this order, that the rest
\* can follow; the lengths are tried a sixteenth or a quarter at a time
FirstRun(rest, text, m, first, step, k, w, n) ==
    CASE k > n -> NoMatch
      [] k <= n /\ w = 1 ->
           MatchHere(rest, text, [m EXCEPT !.e = @ + first + step * (k - 1)])
      [] k <= n /\ w = 4 ->
           FirstOf4(FirstRun(rest, text, m, first, step, k, 1, n),
                    FirstRun(rest, text, m, first, step, k + 1, 1, n),
                    FirstRun(rest, text, m, first, step, k + 2, 1, n),
                    FirstRun(rest, text, m, first, step, k + 3, 1, n))
      [] OTHER ->
           FirstOf16(
             FirstRun(rest, text, m, first, step, k, w \div 16, n),
             FirstRun(rest, text, m, first, step, k + 1 * (w \div 16), w \div 16, n),
             FirstRun(rest, text, m, first, step, k + 2 * (w \div 16), w \div 16, n),
             FirstRun(rest, text, m, first, step, k + 3 * (w \div 16), w \div 16, n),
             FirstRun(rest, text, m, first, step, k + 4 * (w \div 16), w \div 16, n),
             FirstRun(rest, text, m, first, step, k + 5 * (w \div 16), w \div 16, n),
             FirstRun(rest, text, m, first, step, k + 6 * (w \div 16), w \div 16, n),
             FirstRun(rest, text, m, first, step, k + 7 * (w \div 16), w \div 16, n),
             FirstRun(rest, text, m, first, step, k + 8 * (w \div 16), w \div 16, n),
             FirstRun(rest, text, m, first, step, k + 9 * (w \div 16), w \div 16, n),
             FirstRun(rest, text, m, first, step, k + 10 * (w \div 16), w \div 16, n),
             FirstRun(rest, text, m, first, step, k + 11 * (w \div 16), w \div 16, n),
             FirstRun(rest, text, m, first, step, k + 12 * (w \div 16), w \div 16, n),
             FirstRun(rest, text, m, first, step, k + 13 * (w \div 16), w \div 16, n),
             FirstRun(rest, text, m, first, step, k + 14 * (w \div 16), w \div 16, n),
             FirstRun(rest, text, m, first, step, k + 15 * (w \div 16), w \div 16, n))

\* the leftmost match that begins at one of the positions k .. k + w - 1;
\* the positions are tried a sixteenth or a quarter at a time
RECURSIVE SearchIn(_, _, _, _)
SearchIn(pattern, text, k, w) ==
    CASE k > Len(text) + 1 -> NoMatch
      [] k <= Len(text) + 1 /\ w = 1 -> MatchHere(pattern, text, Begun(k))
      [] k <= Len(text) + 1 /\ w = 4 ->
           FirstOf4(SearchIn(pattern, text, k, 1), SearchIn(pattern, text, k + 1, 1),
                    SearchIn(pattern, text, k + 2, 1), SearchIn(pattern, text, k + 3, 1))
      [] OTHER ->
           FirstOf16(
             SearchIn(pattern, text, k, w \div 16),
             SearchIn(pattern, text, k + 1 * (w \div 16), w \div 16),
             SearchIn(pattern, text, k + 2 * (w \div 16), w \div 16),
             SearchIn(pattern, text, k + 3 * (w \div 16), w \div 16),
             SearchIn(pattern, text, k + 4 * (w \div 16), w \div 16),
             SearchIn(pattern, text, k + 5 * (w \div 16), w \div 16),
             SearchIn(pattern, text, k + 6 * (w \div 16), w \div 16),
             SearchIn(pattern, text, k + 7 * (w \div 16), w \div 16),
             SearchIn(pattern, text, k + 8 * (w \div 16), w \div 16),
             SearchIn(pattern, text, k + 9 * (w \div 16), w \div 16),
             SearchIn(pattern, text, k + 10 * (w \div 16), w \div 16),
             SearchIn(pattern, text, k + 11 * (w \div 16), w \div 16),
             SearchIn(pattern, text, k + 12 * (w \div 16), w \div 16),
             SearchIn(pattern, text, k + 13 * (w \div 16), w \div 16),
             SearchIn(pattern, text, k + 14 * (w \div 16), w \div 16),
             SearchIn(pattern, text, k + 15 * (w \div 16), w \div 16))

\* pattern.search(text) from position i on: the leftmost match
SearchFrom(pattern, text, i) ==
    SearchIn(pattern, text, i, Width(Len(text) + 2 - i, 1))

search(pattern, text) == SearchFrom(pattern, text, 1)

\* match.group(n)
group(text, match, n) == SubSeq(text, match.caps[n][1], match.caps[n][2] - 1)

\* str.strip()
RECURSIVE lstrip(_)
lstrip(text) ==
    IF Len(text) > 0 /\ Head(text) \in whitespace THEN lstrip(Tail(text)) ELSE text

RECURSIVE rstrip(_)
rstrip(text) ==
    IF Len(text) > 0 /\ text[Len(text)] \in whitespace
    THEN rstrip(SubSeq(text, 1, Len(text) - 1)) ELSE text

strip(text) == rstrip(lstrip(text))

\* str.replace(',', '')
RECURSIVE without_commas(_)
without_commas(text) ==
    IF Len(text) = 0 THEN <<>>
    ELSE IF Head(text) = "," THEN without_commas(Tail(text))
    ELSE <<Head(text)>> \o without_commas(Tail(text))

\* [A-Z0-9\-/] and [A-Z0-9\-] under re.IGNORECASE
NumberChars == IgnoreCase(UpperCase) \cup Digit \cup {"-", "/"}

TaxIdChars == IgnoreCase(UpperCase) \cup Digit \cup {"-"}

\* \s*:?\s* between a label and its value
Separator == <<Star(whitespace), Opt({":"}), Star(whitespace)>>

\* \d{1,2}[/\-]\d{1,2}[/\-]\d{2,4}
DayMonthYear ==
    <<Run(Digit, 1, 2), One({"/", "-"}), Run(Digit, 1, 2),
      One({"/", "-"}), Run(Digit, 2, 4)>>

\* \d{4}[-/]\d{1,2}[-/]\d{1,2}
YearMonthDay ==
    <<Run(Digit, 4, 4), One({"-", "/"}), Run(Digit, 1, 2),
      One({"-", "/"}), Run(Digit, 1, 2)>>

\* [\d,]+\.?\d*
Amount == <<Plus(Digit \cup {","}), Opt({"."}), Star(Digit)>>

\* [^\n]+
RestOfLine == <<RunNot({"\n"}, 1, -1)>>

INVOICE_NUMBER_PATTERNS ==
    << <<Alt(<<I(<<"i", "n", "v", "o", "i", "c", "e">>) \o <<Star(whitespace), Opt({"#"})>>,
               I(<<"i", "n", "v">>) \o <<Star(whitespace), Opt({"#"})>>,
               I(<<"i", "n", "v", "o", "i", "c", "e">>) \o <<Star(whitespace)>> \o I(<<"n", "u", "m", "b", "e", "r">>)>>)>>
         \o Separator \o Group(1, <<Plus(NumberChars)>>),
       <<One({"#"}), Star(whitespace)>> \o Group(1, <<Plus(NumberChars)>>),
       I(<<"i", "n", "v", "o", "i", "c", "e">>) \o <<Plus(whitespace)>> \o Group(1, <<Plus(NumberChars)>>) >>

DATE_PATTERNS ==
    << <<Alt(<<I(<<"i", "n", "v", "o", "i", "c", "e">>) \o <<Star(whitespace)>> \o I(<<"d", "a", "t", "e">>), I(<<"d", "a", "t", "e">>)>>)>>
         \o Separator \o Group(1, DayMonthYear),
       Group(1, DayMonthYear),
       Group(1, YearMonthDay) >>

DUE_DATE_PATTERNS ==
    << <<Alt(<<I(<<"d", "u", "e">>) \o <<Star(whitespace)>> \o I(<<"d", "a", "t", "e">>),
               I(<<"p", "a", "y", "m", "e", "n", "t">>) \o <<Star(whitespace)>> \o I(<<"d", "u", "e">>)>>)>>
         \o Separator \o Group(1, DayMonthYear),
       I(<<"d", "u", "e">>) \o <<Plus(whitespace)>> \o Group(1, DayMonthYear) >>

SELLER_PATTERNS ==
    << <<Alt(<<I(<<"f", "r", "o", "m">>), I(<<"s", "e", "l", "l", "e", "r">>), I(<<"v", "e", "n", "d", "o", "r">>), I(<<"s", "u", "p", "p", "l", "i", "e", "r">>),
               I(<<"b", "i", "l", "l">>) \o <<Star(whitespace)>> \o I(<<"f", "r", "o", "m">>)>>)>>
         \o Separator \o Group(1, RestOfLine),
       <<Bol>> \o Group(1, <<One(UpperCase),
                             Plus(UpperCase \cup whitespace \cup {"&", ",", "."}),
                             Rep(<<Alt(<<L(<<"I", "n", "c">>), L(<<"L", "L", "C">>), L(<<"L", "t", "d">>), L(<<"C", "o", "r", "p">>),
                                         L(<<"C", "o", "m", "p", "a", "n", "y">>)>>)>>, 0, 1)>>) >>

BUYER_PATTERNS ==
    << <<Alt(<<I(<<"t", "o">>), I(<<"b", "u", "y", "e", "r">>), I(<<"c", "u", "s", "t", "o", "m", "e", "r">>),
               I(<<"b", "i", "l", "l">>) \o <<Star(whitespace)>> \o I(<<"t", "o">>)>>)>>
         \o Separator \o Group(1, RestOfLine),
       I(<<"b", "i", "l", "l">>) \o <<Plus(whitespace)>> \o I(<<"t", "o">>) \o Separator
         \o Group(1, RestOfLine) >>

ADDRESS_PATTERNS ==
    << I(<<"a", "d", "d", "r", "e", "s", "s">>) \o Separator
         \o Group(1, RestOfLine \o <<Rep(<<One({"\n"})>> \o RestOfLine, 0, 3)>>),
       Group(1, <<Plus(Digit), Plus(whitespace), One(IgnoreCase(UpperCase)),
                  Plus(IgnoreCase(UpperCase) \cup whitespace),
                  Alt(<<I(<<"s", "t", "r", "e", "e", "t">>), I(<<"s", "t">>), I(<<"a", "v", "e", "n", "u", "e">>), I(<<"a", "v", "e">>), I(<<"r", "o", "a", "d">>),
                        I(<<"r", "d">>), I(<<"l", "a", "n", "e">>), I(<<"l", "n">>), I(<<"d", "r", "i", "v", "e">>), I(<<"d", "r">>),
                        I(<<"b", "o", "u", "l", "e", "v", "a", "r", "d">>), I(<<"b", "l", "v", "d">>)>>),
                  RunNot({"\n"}, 0, -1)>>) >>

TAX_ID_PATTERNS ==
    << <<Alt(<<I(<<"t", "a", "x">>) \o <<Star(whitespace)>> \o I(<<"i", "d">>),
               I(<<"v", "a", "t">>) \o <<Star(whitespace)>> \o I(<<"i", "d">>),
               I(<<"g", "s", "t", "i", "n">>), I(<<"e", "i", "n">>)>>)>>
         \o Separator \o Group(1, <<Plus(TaxIdChars)>>),
       <<Alt(<<I(<<"t", "a", "x">>) \o <<Star(whitespace)>> \o I(<<"i", "d", "e", "n", "t", "i", "f", "i", "c", "a", "t", "i", "o", "n">>),
               I(<<"v", "a", "t">>) \o <<Star(whitespace)>> \o I(<<"n", "u", "m", "b", "e", "r">>)>>)>>
         \o Separator \o Group(1, <<Plus(TaxIdChars)>>) >>

\* the characters U+20AC and U+20B9 are written "<euro>" and "<rupee>"
CURRENCY_PATTERNS ==
    << I(<<"c", "u", "r", "r", "e", "n", "c", "y">>) \o Separator
         \o Group(1, <<Run(IgnoreCase(UpperCase), 3, 3)>>),
       Group(1, <<Alt(<< <<One({"<euro>", "$", "<rupee>"})>>,
                         I(<<"e", "u", "r">>), I(<<"u", "s", "d">>), I(<<"i", "n", "r">>)>>)>>) >>

NET_TOTAL_PATTERNS ==
    << <<Alt(<<I(<<"s", "u", "b", "t", "o", "t", "a", "l">>), I(<<"n", "e", "t">>) \o <<Star(whitespace)>> \o I(<<"t", "o", "t", "a", "l">>),
               I(<<"t", "o", "t", "a", "l">>) \o <<Star(whitespace)>> \o I(<<"b", "e", "f", "o", "r", "e">>) \o <<Star(whitespace)>>
                 \o I(<<"t", "a", "x">>)>>)>>
         \o Separator \o Group(1, Amount),
       I(<<"s", "u", "b", "t", "o", "t", "a", "l">>) \o <<Plus(whitespace)>> \o Group(1, Amount) >>

TAX_AMOUNT_PATTERNS ==
    << <<Alt(<<I(<<"t", "a", "x">>), I(<<"v", "a", "t">>), I(<<"g", "s", "t">>)>>), Star(whitespace),
         Rep(<<Alt(<<I(<<"a", "m", "o", "u", "n", "t">>), I(<<"t", "o", "t", "a", "l">>)>>)>>, 0, 1)>>
         \o Separator \o Group(1, Amount),
       I(<<"t", "a", "x">>) \o <<Plus(whitespace)>> \o Group(1, Amount) >>

GROSS_TOTAL_PATTERNS ==
    << <<Alt(<<I(<<"t", "o", "t", "a", "l">>), I(<<"g", "r", "a", "n", "d">>) \o <<Star(whitespace)>> \o I(<<"t", "o", "t", "a", "l">>),
               I(<<"a", "m", "o", "u", "n", "t">>) \o <<Star(whitespace)>> \o I(<<"d", "u", "e">>)>>)>>
         \o Separator \o Group(1, Amount),
       I(<<"t", "o", "t", "a", "l">>) \o <<Plus(whitespace)>> \o Group(1, Amount),
       I(<<"a", "m", "o", "u", "n", "t">>) \o <<Plus(whitespace)>> \o I(<<"d", "u", "e">>) \o <<Plus(whitespace)>>
         \o Group(1, Amount) >>

\* ([A-Za-z0-9\s\-\.]+?)\s+(\d+\.?\d*)\s+([\d,]+\.?\d*)\s+([\d,]+\.?\d*)
line_item_pattern ==
    Group(1, <<LazyRun(UpperCase \cup LowerCase \cup Digit \cup whitespace
                         \cup {"-", "."}, 1, -1)>>)
      \o <<Plus(whitespace)>> \o Group(2, <<Plus(Digit), Opt({"."}), Star(Digit)>>)
      \o <<Plus(whitespace)>> \o Group(3, Amount)
      \o <<Plus(whitespace)>> \o Group(4, Amount)

\* (?:description|item|product).*?(?:qty|quantity).*?(?:price|unit).*?(?:total|amount)
table_pattern ==
    \* .*? under re.DOTALL is a lazy run of any characters
    <<Alt(<<I(<<"d", "e", "s", "c", "r", "i", "p", "t", "i", "o", "n">>), I(<<"i", "t", "e", "m">>), I(<<"p", "r", "o", "d", "u", "c", "t">>)>>),
      LazyRunNot({}, 0, -1),
      Alt(<<I(<<"q", "t", "y">>), I(<<"q", "u", "a", "n", "t", "i", "t", "y">>)>>),
      LazyRunNot({}, 0, -1),
      Alt(<<I(<<"p", "r", "i", "c", "e">>), I(<<"u", "n", "i", "t">>)>>),
      LazyRunNot({}, 0, -1),
      Alt(<<I(<<"t", "o", "t", "a", "l">>), I(<<"a", "m", "o", "u", "n", "t">>)>>)>>

\* ------------------------------------------------------------------------
\* patterns.py : the field extractors
\* ------------------------------------------------------------------------

\* the str value of a text
RECURSIVE Str(_)
Str(text) == IF Len(text) = 0 THEN "" ELSE Head(text) \o Str(Tail(text))

\* if match: return match.group(1).strip()   -- else go on to the next pattern
capture_or(match, text, next) ==
    IF match.e # 0 THEN Str(strip(group(text, match, 1))) ELSE next

\* the capture of the last pattern that matches
later_or(next, match, text) ==
    IF next # None THEN next ELSE capture_or(match, text, None)

RECURSIVE last_capture(_, _, _)
last_capture(patterns, text, k) ==
    IF k > Len(patterns) THEN None
    ELSE later_or(last_capture(patterns, text, k + 1),
                  search(patterns[k], text), text)

\* for pattern in patterns: match = pattern.search(text); ... return None
RECURSIVE first_capture(_, _, _)
first_capture(patterns, text, k) ==
    IF k > Len(patterns) THEN None
    ELSE capture_or(search(patterns[k], text), text,
                    first_capture(patterns, text, k + 1))

extract_invoice_number(text) == first_capture(INVOICE_NUMBER_PATTERNS, text, 1)

extract_date(text, patterns) == first_capture(patterns, text, 1)

extract_due_date(text) == extract_date(text, DUE_DATE_PATTERNS)

extract_seller_name(text) == first_capture(SELLER_PATTERNS, text, 1)

extract_buyer_name(text) == first_capture(BUYER_PATTERNS, text, 1)

extract_address(text) == first_capture(ADDRESS_PATTERNS, text, 1)

extract_tax_id(text) == first_capture(TAX_ID_PATTERNS, text, 1)

\* the symbol-to-code mapping and currency.upper()
currency_code(currency) ==
    IF currency = <<"<euro>">> THEN "EUR"
    ELSE IF currency = <<"$">> THEN "USD"
    ELSE IF currency = <<"<rupee>">> THEN "INR"
    ELSE Str(ToUpper(currency))

currency_or(match, text, next) ==
    IF match.e # 0 THEN currency_code(strip(group(text, match, 1))) ELSE next

RECURSIVE first_currency(_, _, _)
first_currency(patterns, text, k) ==
    IF k > Len(patterns) THEN None
    ELSE currency_or(search(patterns[k], text), text,
                     first_currency(patterns, text, k + 1))

extract_currency(text) == first_currency(CURRENCY_PATTERNS, text, 1)

\* float(s) raises ValueError unless s holds a digit (s is digits with at
\* most one point)
is_float(s) == \E k \in 1..Len(s) : s[k] \in Digit

DigitValue(c) == (CHOOSE k \in 1..10 : digits[k] = c) - 1

\* the whole number written by a run of digits, continuing from acc
RECURSIVE WholeNumber(_, _)
WholeNumber(acc, s) ==
    IF Len(s) = 0 THEN acc
    ELSE WholeNumber(10 * acc + DigitValue(Head(s)), Tail(s))

PointAt(s) ==
    IF \E k \in 1..Len(s) : s[k] = "."
    THEN CHOOSE k \in 1..Len(s) : s[k] = "."
    ELSE Len(s) + 1

\* the cents written by the digits after the point (at most two, or zeros)
FractionCents(f) ==
    CASE Len(f) = 0 -> 0
      [] Len(f) = 1 -> 10 * DigitValue(f[1])
      [] Len(f) >= 2 /\ \A k \in 3..Len(f) : f[k] = "0" ->
           10 * DigitValue(f[1]) + DigitValue(f[2])

\* float(s) of a decimal text, as the cents it denotes (a float literal of
\* c cents is the double FromCents(c))
float(s) ==
    100 * WholeNumber(0, SubSeq(s, 1, PointAt(s) - 1))
      + FractionCents(SubSeq(s, PointAt(s) + 1, Len(s)))

\* an Optional[float]: <<>> is None, <<c>> the float of c cents
amount_or(match, amount_str, next) ==
    IF match.e # 0 /\ is_float(amount_str) THEN <<float(amount_str)>> ELSE next

\* amount_str = match.group(1).replace(',', '')
amount_of_match(match, text, next) ==
    amount_or(match, without_commas(group(text, match, 1)), next)

\* extract_amount(text, patterns): a capture that is no number is skipped
\* (except ValueError: continue)
RECURSIVE extract_amount_from(_, _, _)
extract_amount_from(text, patterns, k) ==
    IF k > Len(patterns) THEN <<>>
    ELSE amount_of_match(search(patterns[k], text), text,
                         extract_amount_from(text, patterns, k + 1))

extract_amount(text, patterns) == extract_amount_from(text, patterns, 1)

extract_net_total(text) == extract_amount(text, NET_TOTAL_PATTERNS)

extract_tax_amount(text) == extract_amount(text, TAX_AMOUNT_PATTERNS)

extract_gross_total(text) == extract_amount(text, GROSS_TOTAL_PATTERNS)

\* re.findall: the groups of the successive non-overlapping matches; rows
\* are those of the matches before match
RECURSIVE findall_after(_, _, _, _)
findall_after(pattern, text, match, rows) ==
    CASE match = NoMatch -> rows
      [] OTHER ->
           findall_after(pattern, text, SearchFrom(pattern, text, match.e),
                         rows \o <<SubSeq([n \in 1..4 |-> group(text, match, n)], 1, 4)>>)

findall(pattern, text) ==
    findall_after(pattern, text, SearchFrom(pattern, text, 1), <<>>)

\* float(row[n].replace(',', '')) raises ValueError for one of the columns
row_raises(row) ==
    \/ ~is_float(without_commas(row[2]))
    \/ ~is_float(without_commas(row[3]))
    \/ ~is_float(without_commas(row[4]))

\* a float that is a whole number, as that number
Whole(cents) == CASE cents % 100 = 0 -> cents \div 100

line_item(row) ==
    [description |-> Str(strip(row[1])),
     quantity    |-> Whole(float(without_commas(row[2]))),
     unit_price  |-> float(without_commas(row[3])),
     line_total  |-> float(without_commas(row[4]))]

\* the loop over rows[:10]: a row is appended when no conversion raises,
\* its description is longer than min_len and its quantity is positive
RECURSIVE accepted_rows(_, _, _)
accepted_rows(rows, k, min_len) ==
    IF k > Len(rows) \/ k > 10 THEN <<>>
    ELSE (IF ~row_raises(rows[k])
             /\ Len(strip(rows[k][1])) > min_len
             /\ float(without_commas(rows[k][2])) > 0
          THEN <<line_item(rows[k])>> ELSE <<>>)
         \o accepted_rows(rows, k + 1, min_len)

\* phase 1: the rows after the table header, when there is one
table_rows(table_match, text) ==
    IF table_match.e # 0
    THEN accepted_rows(findall(line_item_pattern,
                               SubSeq(text, table_match.e, Len(text))), 1, 0)
    ELSE <<>>

\* a phase 2 that runs in any case and adds its rows to those of phase 1
fallback_rows_merged(line_items, text) ==
    line_items \o accepted_rows(findall(line_item_pattern, text), 1, 2)

\* phase 2 (if not line_items): the rows of the whole text
fallback_rows(line_items, text) ==
    IF line_items = <<>>
    THEN accepted_rows(findall(line_item_pattern, text), 1, 2)
    ELSE line_items

extract_line_items(text) ==
    fallback_rows(table_rows(search(table_pattern, text), text), text)

\* ------------------------------------------------------------------------
\* extractor.py
\* ------------------------------------------------------------------------

\* the exception dateutil raises for a text that is no calendar date
\* (ParserError, a ValueError)
ValueError == "<ValueError>"

\* date_parser.parse(date_str, dayfirst=True, fuzzy=True).date().isoformat()
\* on the date texts of the model (31 February is no date)
dateutil_parse(date_str) ==
    CASE date_str = "15/01/2024" -> "2024-01-15"
      [] date_str = "10/01/2024" -> "2024-01-10"
      [] date_str = "31/02/2024" -> ValueError

\* a parse_date without its except clause
parse_date_uncaught(date_str) ==
    IF date_str \in {None, ""} THEN None ELSE dateutil_parse(date_str)

\* if not date_str: return None ... except (ValueError, TypeError): return None
parse_date(date_str) ==
    IF date_str \in {None, ""} THEN None
    ELSE IF dateutil_parse(date_str) = ValueError THEN None
    ELSE dateutil_parse(date_str)

\* x or default, for an Optional[str] and an Optional[float]
str_or(x, default) == IF x \in {None, ""} THEN default ELSE x

float_or(x, default) == IF x = <<>> THEN default ELSE x[1]

\* the dictionary the function builds; it holds no invoice_id yet
invoice_data_of(text) ==
    [invoice_id     |-> Absent,
     invoice_number |-> str_or(extract_invoice_number(text), "UNKNOWN"),
     invoice_date   |-> parse_date(extract_date(text, DATE_PATTERNS)),
     due_date       |-> parse_date(extract_due_date(text)),
     seller_name    |-> str_or(extract_seller_name(text), ""),
     seller_address |-> extract_address(text),
     seller_tax_id  |-> extract_tax_id(text),
     buyer_name     |-> str_or(extract_buyer_name(text), ""),
     buyer_address  |-> None,
     buyer_tax_id   |-> None,
     currency       |-> str_or(extract_currency(text), "USD"),
     net_total      |-> float_or(extract_net_total(text), 0),
     tax_amount     |-> float_or(extract_tax_amount(text), 0),
     gross_total    |-> float_or(extract_gross_total(text), 0),
     line_items     |-> extract_line_items(text)]

\* if invoice_id: invoice_data["invoice_id"] = invoice_id
with_invoice_id(invoice_data, invoice_id) ==
    IF invoice_id \in {None, ""} THEN invoice_data
    ELSE [invoice_data EXCEPT !.invoice_id = invoice_id]

\* an exception that parse_date lets through ends the call: <<>>; otherwise
\* the record is returned
returned_unless_raised(invoice_data) ==
    IF ValueError \in {invoice_data.invoice_date, invoice_data.due_date}
    THEN <<>> ELSE <<invoice_data>>

\* the end of the function, from the dictionary on
attach_and_return(invoice_data, invoice_id) ==
    returned_unless_raised(with_invoice_id(invoice_data, invoice_id))

\* what extract_invoice_from_text returns: <<invoice_data>>, or <<>> when it
\* raises
extract_invoice_from_text(text, invoice_id) ==
    attach_and_return(invoice_data_of(text), invoice_id)

\* ------------------------------------------------------------------------
\* The texts and identifiers the callers pass
\* ------------------------------------------------------------------------

\* the lines a text is made of
Lines ==
    <<<<"i", "n", "v", " ", "7">>,
      <<"#", " ", "9", " ", "n", "e", "t", " ", "t", "o", "t", "a", "l", " ", "3", " ", "t", "a", "x", " ", "1">>,
      <<"c", "u", "r", "r", "e", "n", "c", "y", ":", " ", "e", "u", "r", " ", "t", "o", "t", "a", "l", ":", " ", ",", " ", "t", "o", "t", "a", "l", " ", "5">>,
      <<"f", "r", "o", "m", ":", " ", "A", "c", "m", "e", " ", "t", "o", " ", "B", "o", "b", " ", "1", "5", "/", "0", "1", "/", "2", "0", "2", "4", " ">>,
      <<"d", "a", "t", "e", " ", "3", "1", "/", "0", "2", "/", "2", "0", "2", "4", " ", "d", "u", "e", " ", "1", "0", "/", "0", "1", "/", "2", "0", "2", "4">>,
      <<"N", "u", "t", " ", "2", " ", "1", ".", "0", "0", " ", "2", ".", "0", "0", " ", "$">>>>

\* lines in a text
MaxLines == 2

RECURSIVE JoinLines(_, _)
JoinLines(pick, k) ==
    IF k > Len(pick) THEN <<>>
    ELSE (IF k > 1 THEN <<"\n">> ELSE <<>>) \o Lines[pick[k]]
         \o JoinLines(pick, k + 1)

\* the texts of up to MaxLines different lines, in any order
Texts ==
    {JoinLines(pick, 1) :
        pick \in {p \in UNION {[1..n -> 1..Len(Lines)] : n \in 0..MaxLines} :
                     \A i, j \in DOMAIN p : i # j => p[i] # p[j]}}

\* the invoice_id argument: left out (None), empty, or a document name
CallerIds == {None, "", "doc-1"}

\* extracted returned by extract_invoice_from_text(text, invoice_id)
ExtractReturns(text, invoice_id, extracted) ==
    /\ calls' = Append(calls, Call("extract_invoice_from_text",
                           <<text, invoice_id>>, seen_invoices, seen_invoices,
                           extracted, NoSummary))
    /\ UNCHANGED <<seen_invoices, handlers>>

\* extract_invoice_from_text(text, invoice_id) for some identifier, the
\* dictionary being that of the text
DoExtract(text, invoice_data) ==
    \E invoice_id \in CallerIds :
        ExtractReturns(text, invoice_id,
                       attach_and_return(invoice_data, invoice_id))

\* --- a caller that extracts one text
ExtractText ==
    /\ calls = <<>>
    /\ \E text \in Texts : DoExtract(text, invoice_data_of(text))

NextExtract == ExtractText

SpecExtract == Init /\ [][NextExtract]_vars

\* --- a caller that extracts a text and validates the record as a batch of
\* one, or validates a record of its own
ValidateExtracted ==
    /\ Len(calls) = 1
    /\ calls[1].op = "extract_invoice_from_text"
    /\ calls[1].results # <<>>
    /\ DoValidateBatch(calls[1].results)

NextPipeline == ExtractText \/ ValidateExtracted \/ ValidateOne \/ ValidateBatchOne

SpecPipeline == Init /\ [][NextPipeline]_vars

IsExtract(call) == call.op = "extract_invoice_from_text"

\* ------------------------------------------------------------------------
\* C18..C20 : the extractor
\* ------------------------------------------------------------------------

\* the identifier a record is reported under
ReportedId(invoice_data) ==
    IF invoice_data.invoice_id # Absent THEN invoice_data.invoice_id
    ELSE IF invoice_data.invoice_number # Absent
    THEN invoice_data.invoice_number
    ELSE "unknown"

\* C18: the invoice_id of a ValidationResult is the record's invoice_id
\* entry when it has one, otherwise its invoice_number entry, otherwise
\* "unknown", on the shape-failure path as on the rule path; and
\* extract_invoice_from_text attaches invoice_id to the record exactly when
\* the caller supplied a non-empty identifier
C18_ReportedIdAndAttachment ==
    Returned =>
        /\ (IsValidate(Latest) \/ IsBatch(Latest)) =>
              Latest.results[1].invoice_id = ReportedId(Latest.arg[1])
        /\ IsExtract(Latest) =>
              /\ Len(Latest.results) = 1
              /\ Latest.results[1].invoice_id =
                    (IF Latest.arg[2] \in {None, ""} THEN Absent
                     ELSE Latest.arg[2])

\* a text extracted with an empty identifier and then validated is reported
\* under its invoice number
C18_Witness ==
    /\ Len(calls) = 2
    /\ IsExtract(calls[1])
    /\ calls[1].arg[2] = ""
    /\ calls[1].results[1].invoice_id = Absent
    /\ IsBatch(calls[2])
    /\ calls[2].results[1].invoice_id = "7"

\* some pattern of the list matches somewhere in the text
Matches(patterns, text) ==
    \E k \in 1..Len(patterns) : search(patterns[k], text).e # 0

\* the fields of the Invoice schema
InvoiceFields ==
    {"invoice_number", "invoice_date", "due_date", "seller_name",
     "seller_address", "seller_tax_id", "buyer_name", "buyer_address",
     "buyer_tax_id", "currency", "net_total", "tax_amount", "gross_total",
     "line_items"}

\* the record holds the default of every field whose extractor matched
\* nothing in the text: a field that differs from its default has a pattern
\* that matches
HoldsDefaults(text, invoice_data) ==
    /\ invoice_data.invoice_number # None
    /\ invoice_data.invoice_number # "UNKNOWN" =>
          Matches(INVOICE_NUMBER_PATTERNS, text)
    /\ invoice_data.invoice_date # None => Matches(DATE_PATTERNS, text)
    /\ invoice_data.due_date # None => Matches(DUE_DATE_PATTERNS, text)
    /\ invoice_data.seller_name # "" => Matches(SELLER_PATTERNS, text)
    /\ invoice_data.buyer_name # "" => Matches(BUYER_PATTERNS, text)
    /\ invoice_data.currency # "USD" => Matches(CURRENCY_PATTERNS, text)
    /\ invoice_data.net_total # 0 => Matches(NET_TOTAL_PATTERNS, text)
    /\ invoice_data.tax_amount # 0 => Matches(TAX_AMOUNT_PATTERNS, text)
    /\ invoice_data.gross_total # 0 => Matches(GROSS_TOTAL_PATTERNS, text)
    /\ invoice_data.line_items # <<>> => Matches(<<line_item_pattern>>, text)
    /\ invoice_data.buyer_address = None
    /\ invoice_data.buyer_tax_id = None

\* C19: for every text extract_invoice_from_text returns, without raising, a
\* record with all fourteen Invoice fields, holding the default of each
\* field whose extractor matched nothing: invoice_number "UNKNOWN" (never
\* none), the dates none, the names "", currency "USD", the totals 0.0,
\* line_items empty; buyer_address and buyer_tax_id are always none
C19_ExtractReturnsDefaults ==
    (Returned /\ IsExtract(Latest)) =>
        /\ Len(Latest.results) = 1
        /\ InvoiceFields \subseteq DOMAIN Latest.results[1]
        /\ HoldsDefaults(Latest.arg[1], Latest.results[1])

\* a text whose only finds are dates, one of them no calendar date:
\* dateutil raises, parse_date answers none, and the fields without a match
\* hold their defaults
C19_Witness ==
    /\ Returned
    /\ IsExtract(Latest)
    /\ Len(Latest.results) = 1
    /\ Matches(DATE_PATTERNS, Latest.arg[1])
    /\ dateutil_parse(extract_date(Latest.arg[1], DATE_PATTERNS)) = ValueError
    /\ ~Matches(INVOICE_NUMBER_PATTERNS, Latest.arg[1])
    /\ ~Matches(SELLER_PATTERNS, Latest.arg[1])
    /\ ~Matches(BUYER_PATTERNS, Latest.arg[1])
    /\ ~Matches(CURRENCY_PATTERNS, Latest.arg[1])
    /\ ~Matches(GROSS_TOTAL_PATTERNS, Latest.arg[1])
    /\ ~Matches(<<line_item_pattern>>, Latest.arg[1])
    /\ Latest.results[1].invoice_date = None
    /\ Latest.results[1].invoice_number = "UNKNOWN"
    /\ Latest.results[1].seller_name = ""
    /\ Latest.results[1].buyer_name = ""
    /\ Latest.results[1].currency = "USD"
    /\ Latest.results[1].gross_total = 0
    /\ Latest.results[1].line_items = <<>>

\* a text without its leading and trailing whitespace
Trimmed(text) ==
    IF \A k \in 1..Len(text) : text[k] \in whitespace THEN <<>>
    ELSE SubSeq(text,
                CHOOSE a \in 1..Len(text) :
                    /\ text[a] \notin whitespace
                    /\ \A k \in 1..(a - 1) : text[k] \in whitespace,
                CHOOSE z \in 1..Len(text) :
                    /\ text[z] \notin whitespace
                    /\ \A k \in (z + 1)..Len(text) : text[k] \in whitespace)

\* what each pattern of the list finds in the text, in declared order
Found(patterns, text) ==
    SubSeq([k \in 1..Len(patterns) |-> search(patterns[k], text)],
           1, Len(patterns))

\* the patterns that match, and the first of a set of them
MatchingIn(found) == {k \in 1..Len(found) : found[k].e # 0}

FirstOf(matching) == CHOOSE k \in matching : \A j \in matching : k <= j

TrimmedCaptureOfFirst(found, text, matching) ==
    IF matching = {} THEN None
    ELSE Str(Trimmed(group(text, found[FirstOf(matching)], 1)))

TrimmedFirstCaptureIn(found, text) ==
    TrimmedCaptureOfFirst(found, text, MatchingIn(found))

\* the trimmed capture of the first pattern that matches, none when no
\* pattern matches
TrimmedFirstCapture(patterns, text) ==
    TrimmedFirstCaptureIn(Found(patterns, text), text)

\* the seven extractors that return text answer with the trimmed capture of
\* the first matching pattern
TextExtractorsFirstMatch(text) ==
    /\ extract_invoice_number(text) =
          TrimmedFirstCapture(INVOICE_NUMBER_PATTERNS, text)
    /\ extract_date(text, DATE_PATTERNS) = TrimmedFirstCapture(DATE_PATTERNS, text)
    /\ extract_due_date(text) = TrimmedFirstCapture(DUE_DATE_PATTERNS, text)
    /\ extract_seller_name(text) = TrimmedFirstCapture(SELLER_PATTERNS, text)
    /\ extract_buyer_name(text) = TrimmedFirstCapture(BUYER_PATTERNS, text)
    /\ extract_address(text) = TrimmedFirstCapture(ADDRESS_PATTERNS, text)
    /\ extract_tax_id(text) = TrimmedFirstCapture(TAX_ID_PATTERNS, text)

\* the capture of pattern k, commas removed
NumberText(found, text, k) == without_commas(group(text, found[k], 1))

\* an amount extractor answers none only when no pattern matches, and
\* otherwise with the number captured by the first matching pattern
AmountOfFirst(amount, found, text, matching) ==
    /\ amount = <<>> <=> matching = {}
    /\ amount # <<>> =>
          /\ is_float(NumberText(found, text, FirstOf(matching)))
          /\ amount = <<float(NumberText(found, text, FirstOf(matching)))>>

AmountOfFirstIn(amount, found, text) ==
    AmountOfFirst(amount, found, text, MatchingIn(found))

AmountOfFirstMatch(amount, patterns, text) ==
    AmountOfFirstIn(amount, Found(patterns, text), text)

\* C20 as stated: every field extractor returns the trimmed capture of the
\* first pattern, in declared order, that matches anywhere in the text,
\* ignoring all later patterns, and none only when no pattern matches
C20_EveryExtractorFirstCapture ==
    (Returned /\ IsExtract(Latest)) =>
        /\ TextExtractorsFirstMatch(Latest.arg[1])
        /\ extract_currency(Latest.arg[1]) =
              TrimmedFirstCapture(CURRENCY_PATTERNS, Latest.arg[1])
        /\ AmountOfFirstMatch(extract_net_total(Latest.arg[1]),
                              NET_TOTAL_PATTERNS, Latest.arg[1])
        /\ AmountOfFirstMatch(extract_tax_amount(Latest.arg[1]),
                              TAX_AMOUNT_PATTERNS, Latest.arg[1])
        /\ AmountOfFirstMatch(extract_gross_total(Latest.arg[1]),
                              GROSS_TOTAL_PATTERNS, Latest.arg[1])

\* the matching patterns whose capture, commas removed, is a number
Convertible(found, text) ==
    {k \in MatchingIn(found) : is_float(NumberText(found, text, k))}

AmountOfFirstOf(found, text, convertible) ==
    IF convertible = {} THEN <<>>
    ELSE <<float(NumberText(found, text, FirstOf(convertible)))>>

AmountOfFirstConvertibleIn(found, text) ==
    AmountOfFirstOf(found, text, Convertible(found, text))

\* the number captured by the first matching pattern whose capture is a
\* number; none when there is no such pattern
AmountOfFirstConvertible(patterns, text) ==
    AmountOfFirstConvertibleIn(Found(patterns, text), text)

CodeOfFirst(found, text, matching) ==
    IF matching = {} THEN None
    ELSE currency_code(Trimmed(group(text, found[FirstOf(matching)], 1)))

CodeOfFirstIn(found, text) == CodeOfFirst(found, text, MatchingIn(found))

\* the currency code of the first matching pattern's trimmed capture
CodeOfFirstCapture(patterns, text) ==
    CodeOfFirstIn(Found(patterns, text), text)

\* C20: the extractors of invoice number, dates, seller, buyer, address and
\* tax id return the trimmed capture of the first pattern, in declared
\* order, that matches anywhere in the text, and none only when no pattern
\* matches; extract_currency returns that capture as a currency code (a
\* symbol mapped to its code, anything else upper-cased); an amount
\* extractor returns the number captured by the first matching pattern whose
\* capture converts, passing over a matching pattern whose capture does not,
\* and none when no pattern matches or no capture converts
C20_FirstCaptureConverted ==
    (Returned /\ IsExtract(Latest)) =>
        /\ TextExtractorsFirstMatch(Latest.arg[1])
        /\ extract_currency(Latest.arg[1]) =
              CodeOfFirstCapture(CURRENCY_PATTERNS, Latest.arg[1])
        /\ extract_net_total(Latest.arg[1]) =
              AmountOfFirstConvertible(NET_TOTAL_PATTERNS, Latest.arg[1])
        /\ extract_tax_amount(Latest.arg[1]) =
              AmountOfFirstConvertible(TAX_AMOUNT_PATTERNS, Latest.arg[1])
        /\ extract_gross_total(Latest.arg[1]) =
              AmountOfFirstConvertible(GROSS_TOTAL_PATTERNS, Latest.arg[1])

\* a text in which the second invoice-number pattern matches before the
\* first one does, with another capture: the first pattern's capture is
\* returned
C20_Witness ==
    /\ Returned
    /\ IsExtract(Latest)
    /\ MatchingIn(Found(INVOICE_NUMBER_PATTERNS, Latest.arg[1])) = {1, 2}
    /\ Found(INVOICE_NUMBER_PATTERNS, Latest.arg[1])[2].b
          < Found(INVOICE_NUMBER_PATTERNS, Latest.arg[1])[1].b
    /\ extract_invoice_number(Latest.arg[1]) = "7"
    /\ Str(group(Latest.arg[1],
                 Found(INVOICE_NUMBER_PATTERNS, Latest.arg[1])[2], 1)) = "9"
    /\ Len(Latest.results) = 1
    /\ Latest.results[1].invoice_number = "7"

\* ------------------------------------------------------------------------
\* The texts with a table of line items
\* ------------------------------------------------------------------------

\* the header line of a table
TableHeader == <<"I", "t", "e", "m", " ", "Q", "t", "y", " ", "P", "r", "i", "c", "e", " ", "T", "o", "t", "a", "l">>

\* the rows a table is made of: one that is accepted, one of quantity 0, one
\* whose description has two characters, one whose price is a lone comma
TableRows ==
    <<<<"N", "u", "t", " ", "2", " ", "1", ".", "0", "0", " ", "2", ".", "0", "0">>,
      <<"B", "o", "l", "t", " ", "0", " ", "1", ".", "0", "0", " ", "0", ".", "0", "0">>,
      <<"a", "b", " ", "1", " ", "3", ".", "0", "0", " ", "3", ".", "0", "0">>,
      <<"C", "o", "g", " ", "1", " ", ",", " ", "2">>>>

\* rows in a table
MaxRows == 3

\* more rows than extract_line_items looks at
ManyRows == 11

Repeated(line, n) == [k \in 1..n |-> line]

\* "\n".join(lines)
RECURSIVE Joined(_, _)
Joined(lines, k) ==
    IF k > Len(lines) THEN <<>>
    ELSE (IF k > 1 THEN <<"\n">> ELSE <<>>) \o lines[k] \o Joined(lines, k + 1)

\* a text: rows before the table or none, the header line or none, then up
\* to MaxRows rows of any kind, or ManyRows accepted rows
TableTexts ==
    {Joined(before \o header \o rows, 1) :
        before \in {<<>>, <<TableRows[1]>>},
        header \in {<<>>, <<TableHeader>>},
        rows \in {[k \in 1..n |-> TableRows[pick[k]]] :
                     n \in 0..MaxRows, pick \in [1..MaxRows -> 1..Len(TableRows)]}
                 \cup {Repeated(TableRows[1], ManyRows)}}

\* line_items returned by extract_line_items(text)
LineItemsReturns(text, line_items) ==
    /\ calls' = Append(calls, Call("extract_line_items", <<text>>,
                           seen_invoices, seen_invoices, line_items,
                           NoSummary))
    /\ UNCHANGED <<seen_invoices, handlers>>

\* --- a caller that extracts the line items of one text
ExtractLineItems ==
    /\ calls = <<>>
    /\ \E text \in TableTexts : LineItemsReturns(text, extract_line_items(text))

NextLineItems == ExtractLineItems

SpecLineItems == Init /\ [][NextLineItems]_vars

IsLineItems(call) == call.op = "extract_line_items"

\* ------------------------------------------------------------------------
\* C21 : the two phases of extract_line_items
\* ------------------------------------------------------------------------

\* the items phase 1 accepts: the rows after the table header
TablePhase(text) == table_rows(search(table_pattern, text), text)

\* the items phase 2 accepts: the rows of the whole text
FallbackPhase(text) == accepted_rows(findall(line_item_pattern, text), 1, 2)

\* the returned items are those of phase 1 when it accepted any, and
\* otherwise those of phase 2, with descriptions of more than 2 characters
OnePhaseOnly(line_items, table_items, text) ==
    /\ table_items # <<>> => line_items = table_items
    /\ table_items = <<>> =>
          /\ line_items = FallbackPhase(text)
          /\ \A k \in DOMAIN line_items : Len(line_items[k].description) > 2

\* C21: extract_line_items runs phase 2 (the whole text) only when phase 1
\* (the rows after the table header) accepted no row and never merges the
\* rows of both; it returns at most 10 items, each with a non-empty
\* description and a quantity above 0, and the items of phase 2 have a
\* description of more than 2 characters
C21_LineItemsOnePhase ==
    (Returned /\ IsLineItems(Latest)) =>
        /\ Len(Latest.results) <= 10
        /\ \A k \in DOMAIN Latest.results :
              /\ Latest.results[k].description # ""
              /\ Latest.results[k].quantity > 0
        /\ OnePhaseOnly(Latest.results, TablePhase(Latest.arg[1]),
                        Latest.arg[1])

\* a table of ManyRows accepted rows with an accepted row before its
\* header: the first 10 rows of the table are returned, and phase 2, which
\* would have found the row before the header, has not run
C21_Witness ==
    /\ Returned
    /\ IsLineItems(Latest)
    /\ Latest.arg[1] =
          Joined(<<TableRows[1], TableHeader>>
                 \o Repeated(TableRows[1], ManyRows), 1)
    /\ Len(Latest.results) = 10
    /\ Len(FallbackPhase(Latest.arg[1])) = 10
    /\ FallbackPhase(Latest.arg[1]) # Latest.results
    /\ \A k \in DOMAIN Latest.results : Latest.results[k].description = "Nut"

\* ------------------------------------------------------------------------
\* C22..C24 : what the tracking set holds
\* ------------------------------------------------------------------------

\* the positions of the shape-valid records of a batch
ShapeValidAt(invoices) == {k \in DOMAIN invoices : ShapeValid(invoices[k])}

\* no shape-valid record before position k has the key of record k
FirstShapeValidOfKey(invoices, k) ==
    \A j \in 1..(k - 1) :
        ShapeValid(invoices[j]) =>
            KeyAsText(invoices[j]) # KeyAsText(invoices[k])

\* C22: a record that fails shape validation leaves the tracking set as it
\* was: a validate call on it returns with the set unchanged, after a batch
\* the set holds the keys of the batch's shape-valid records and no other,
\* and a shape-valid record of a batch is not flagged duplicate when the
\* only earlier records with its invoice_number, seller_name and
\* invoice_date failed shape validation
C22_RejectedRecordNotTracked ==
    Returned =>
        /\ (IsValidate(Latest) /\ ~ShapeValid(Latest.arg[1])) =>
              Latest.post = Latest.pre
        /\ IsBatch(Latest) =>
              /\ Latest.post =
                    {KeyAsText(Latest.arg[k]) : k \in ShapeValidAt(Latest.arg)}
              /\ \A k \in ShapeValidAt(Latest.arg) :
                    FirstShapeValidOfKey(Latest.arg, k) =>
                        ~HasDuplicateError(Latest.results[k])

\* a batch whose first record fails shape validation and whose second,
\* shape-valid, has the same number, seller and date: the second is valid
\* and not flagged
C22_Witness ==
    /\ Returned
    /\ IsBatch(Latest)
    /\ Len(Latest.arg) = 2
    /\ ~ShapeValid(Latest.arg[1])
    /\ ShapeValid(Latest.arg[2])
    /\ Latest.arg[1].invoice_number = Latest.arg[2].invoice_number
    /\ Latest.arg[1].seller_name = Latest.arg[2].seller_name
    /\ Latest.arg[1].invoice_date = Latest.arg[2].invoice_date
    /\ IsSchemaError(Latest.results[1].errors[1])
    /\ Latest.results[2].is_valid
    /\ Latest.post = {KeyAsText(Latest.arg[2])}

\* the shape-valid records validated since the tracking set was last
\* cleared: by reset_duplicate_tracking, or by validate_batch before its loop
RECURSIVE ShapeValidSinceClear(_)
ShapeValidSinceClear(cs) ==
    IF cs = <<>> THEN 0
    ELSE IF IsReset(cs[Len(cs)]) THEN 0
    ELSE IF IsBatch(cs[Len(cs)])
    THEN Cardinality(ShapeValidAt(cs[Len(cs)].arg))
    ELSE (IF ShapeValid(cs[Len(cs)].arg[1]) THEN 1 ELSE 0)
         + ShapeValidSinceClear(SubSeq(cs, 1, Len(cs) - 1))

HasMismatchError(result) ==
    \E k \in DOMAIN result.errors :
        \/ StartsWith(result.errors[k],
                      <<"business_rule_failed", ":", "totals_mismatch">>)
        \/ StartsWith(result.errors[k],
                      <<"business_rule_failed", ":", "gross_total_mismatch">>)

\* C23: a shape-valid record registers its key whatever its rule errors: a
\* validate call on a shape-valid record returns with the key tracked and
\* is flagged duplicate exactly when the key was tracked before, also when
\* the record that registered it was invalid; validate only adds to the
\* set, and the set never holds more keys than shape-valid records were
\* validated since it was last cleared
C23_InvalidRecordRegistersKey ==
    Returned =>
        /\ seen_invoices = Latest.post
        /\ Cardinality(seen_invoices) <= ShapeValidSinceClear(calls)
        /\ IsValidate(Latest) =>
              /\ Latest.pre \subseteq Latest.post
              /\ ShapeValid(Latest.arg[1]) =>
                    /\ KeyAsText(Latest.arg[1]) \in Latest.post
                    /\ HasDuplicateError(Latest.results[1])
                       <=> KeyAsText(Latest.arg[1]) \in Latest.pre
        /\ IsBatch(Latest) =>
              \A k \in ShapeValidAt(Latest.arg) :
                  KeyAsText(Latest.arg[k]) \in Latest.post

\* a record rejected for a totals mismatch, not as a duplicate, and then a
\* record with the same key, flagged duplicate; the set holds one key for
\* the two shape-valid records
C23_Witness ==
    /\ Len(calls) = 2
    /\ IsValidate(calls[1])
    /\ IsValidate(calls[2])
    /\ ShapeValid(calls[1].arg[1])
    /\ ShapeValid(calls[2].arg[1])
    /\ ~calls[1].results[1].is_valid
    /\ HasMismatchError(calls[1].results[1])
    /\ ~HasDuplicateError(calls[1].results[1])
    /\ KeyAsText(calls[2].arg[1]) = KeyAsText(calls[1].arg[1])
    /\ HasDuplicateError(calls[2].results[1])
    /\ Cardinality(seen_invoices) = 1
    /\ ShapeValidSinceClear(calls) = 2

\* the keys of the shape-valid records validated since the tracking set was
\* last cleared
RECURSIVE KeysSinceClear(_)
KeysSinceClear(cs) ==
    IF cs = <<>> THEN {}
    ELSE IF IsReset(cs[Len(cs)]) THEN {}
    ELSE IF IsBatch(cs[Len(cs)])
    THEN {KeyAsText(cs[Len(cs)].arg[k]) : k \in ShapeValidAt(cs[Len(cs)].arg)}
    ELSE (IF ShapeValid(cs[Len(cs)].arg[1])
          THEN {KeyAsText(cs[Len(cs)].arg[1])} ELSE {})
         \cup KeysSinceClear(SubSeq(cs, 1, Len(cs) - 1))

\* the calls before the latest one
Earlier == SubSeq(calls, 1, Len(calls) - 1)

\* the latest call follows a validate_batch call, with validate calls only
\* between them, and the batch held a shape-valid record with the key
KeyInBatchBefore(key) ==
    \E i \in 1..(Len(calls) - 1) :
        /\ IsBatch(calls[i])
        /\ \A j \in (i + 1)..(Len(calls) - 1) : IsValidate(calls[j])
        /\ \E k \in ShapeValidAt(calls[i].arg) :
              KeyAsText(calls[i].arg[k]) = key

\* C24: validate never clears the tracking set and validate_batch does not
\* clear it on return: the set a batch leaves holds the keys of its
\* shape-valid records, and a validate call on a shape-valid record is
\* flagged anomaly_detected: duplicate_invoice exactly when its key is that
\* of a shape-valid record validated since the last clear; so it is flagged
\* when the key occurred among the shape-valid records of a validate_batch
\* call with no validate_batch or reset call since
C24_BatchKeysOutliveBatch ==
    Returned =>
        /\ IsBatch(Latest) =>
              \A k \in ShapeValidAt(Latest.arg) :
                  KeyAsText(Latest.arg[k]) \in seen_invoices
        /\ (IsValidate(Latest) /\ ShapeValid(Latest.arg[1])) =>
              /\ HasDuplicateError(Latest.results[1])
                 <=> KeyAsText(Latest.arg[1]) \in KeysSinceClear(Earlier)
              /\ KeyInBatchBefore(KeyAsText(Latest.arg[1])) =>
                    HasDuplicateError(Latest.results[1])

\* a batch, then a validate call on a record of another key, then a
\* validate call on a record whose key occurred in the batch: flagged
C24_Witness ==
    /\ Len(calls) = 3
    /\ IsBatch(calls[1])
    /\ IsValidate(calls[2])
    /\ IsValidate(calls[3])
    /\ ShapeValid(calls[2].arg[1])
    /\ ShapeValid(calls[3].arg[1])
    /\ KeyAsText(calls[2].arg[1]) # KeyAsText(calls[3].arg[1])
    /\ ~HasDuplicateError(calls[2].results[1])
    /\ KeyInBatchBefore(KeyAsText(calls[3].arg[1]))
    /\ HasDuplicateError(calls[3].results[1])
    /\ calls[3].results[1].errors =
          <<ErrorString("anomaly_detected",
                <<"duplicate_invoice", calls[3].arg[1].invoice_number,
                  calls[3].arg[1].seller_name, "2024-01-15">>)>>

\* ------------------------------------------------------------------------
\* src/api/app.py : the handlers of /validate-json and
\* /extract-and-validate-pdfs on the module's one validator
\* ------------------------------------------------------------------------

\* an uploaded file: Path(file.filename).stem, the suffix of its name, and
\* the text extract_text_from_pdf reads from it
File(stem, suffix, text) == [stem |-> stem, suffix |-> suffix, text |-> text]

\* the texts of the uploaded PDF files: an invoice with number, seller,
\* buyer and date, and one whose dates are no calendar dates
UploadTexts == <<Joined(<<Lines[1], Lines[4]>>, 1), Lines[5]>>

\* the uploads: one invoice; the same invoice in two files; a file that is
\* no PDF and a PDF whose dates are no calendar dates
Uploads ==
    {<<File("doc-1", ".pdf", UploadTexts[1])>>,
     <<File("doc-1", ".pdf", UploadTexts[1]),
       File("doc-2", ".pdf", UploadTexts[1])>>,
     <<File("notes", ".txt", <<>>), File("doc-3", ".pdf", UploadTexts[2])>>}

\* the dictionary extract_invoice_from_text builds from each uploaded
\* text: a function of the text alone, computed once per text
UploadData ==
    SubSeq([n \in 1..Len(UploadTexts) |-> invoice_data_of(UploadTexts[n])],
           1, Len(UploadTexts))

\* extract_invoice_from_text(text, invoice_id) on an uploaded text
extract_from_upload(text, invoice_id) ==
    attach_and_return(
        UploadData[CHOOSE n \in 1..Len(UploadTexts) : UploadTexts[n] = text],
        invoice_id)

\* the bodies posted to /validate-json: one record; the same record twice;
\* a record the schema rejects and a valid one with its number, seller, date
JsonBodies ==
    {<<Base>>,
     <<Base, Base>>,
     <<[Base EXCEPT !.currency = "XYZ", !.line_items = <<>>], Base>>}

\* JSONResponse(content) and HTTPException(status_code=400, detail)
Response(status_code, content) ==
    [status_code |-> status_code, content |-> content]

\* file.filename.endswith('.pdf')
IsPdf(file) == file.suffix = ".pdf"

\* the loop's next file, from position k on, whose name ends in .pdf:
\* the others are passed over without a suspension
RECURSIVE NextPdf(_, _)
NextPdf(files, k) ==
    IF k > Len(files) THEN k
    ELSE IF IsPdf(files[k]) THEN k
    ELSE NextPdf(files, k + 1)

\* handler r becomes h
HandlerBecomes(r, h) == handlers' = [handlers EXCEPT ![r] = h]

\* requests arrive one after the other: r after r - 1
Arrives(r) ==
    /\ handlers[r].at = "idle"
    /\ r > 1 => handlers[r - 1].at # "idle"

\* a POST /validate-json arrives and its body is parsed
PostValidateJson(r) ==
    /\ Arrives(r)
    /\ \E invoices \in JsonBodies :
          HandlerBecomes(r, Handler("validate_json", "received", invoices,
                                    0, <<>>, <<>>))
    /\ UNCHANGED <<seen_invoices, calls>>

\* the handler returns JSONResponse(content=results), b being what
\* validator.validate_batch returned
ValidateJsonResponds(r, h, b) ==
    /\ seen_invoices' = b.seen
    /\ calls' = Append(calls, Call("validate_batch", h.body, seen_invoices,
                           b.seen, b.report.results, b.report.summary))
    /\ HandlerBecomes(r, [h EXCEPT !.at = "done",
                                   !.response = <<Response(200, b.report)>>])

\* validate_json runs: it has no await, so it runs to its return
RunValidateJson(r) ==
    /\ handlers[r].endpoint = "validate_json"
    /\ handlers[r].at = "received"
    /\ ValidateJsonResponds(r, handlers[r],
                            validate_batch(seen_invoices, handlers[r].body))

\* a POST /extract-and-validate-pdfs arrives with its files
PostPdfs(r) ==
    /\ Arrives(r)
    /\ \E files \in Uploads :
          HandlerBecomes(r, Handler("extract_and_validate_pdfs", "received",
                                    files, 0, <<>>, <<>>))
    /\ UNCHANGED <<seen_invoices, calls>>

\* extracted_invoices when the handler resumes: the file it was reading is
\* extracted and appended, unless the extraction raises
ExtractedOnResume(h) ==
    IF h.at = "received" THEN <<>>
    ELSE h.extracted
         \o extract_from_upload(h.body[h.k].text, h.body[h.k].stem)

\* validator.reset_duplicate_tracking(), validator.validate_batch(...) and
\* the return, cleared and b being what the two calls left and returned
PdfsResponds(r, h, extracted, cleared, b) ==
    /\ seen_invoices' = b.seen
    /\ calls' = calls
          \o <<Call("reset_duplicate_tracking", <<>>, seen_invoices, cleared,
                    <<>>, NoSummary),
               Call("validate_batch", extracted, cleared, b.seen,
                    b.report.results, b.report.summary)>>
    /\ HandlerBecomes(r, [h EXCEPT
          !.at = "done", !.extracted = extracted,
          !.response = <<Response(200, [extracted_invoices |-> extracted,
                                         validation_report |-> b.report])>>])

PdfsValidates(r, h, extracted, cleared) ==
    PdfsResponds(r, h, extracted, cleared, validate_batch(cleared, extracted))

\* the handler from where it stands to its next `await file.read()`, at
\* file `next`, or to its return
PdfsContinues(r, h, extracted, next) ==
    IF next <= Len(h.body)
    THEN /\ HandlerBecomes(r, [h EXCEPT !.at = "reading", !.k = next,
                                        !.extracted = extracted])
         /\ UNCHANGED <<seen_invoices, calls>>
    ELSE IF extracted = <<>>
    THEN /\ HandlerBecomes(r, [h EXCEPT
                !.at = "done",
                !.response = <<Response(400,
                    "No valid invoices extracted from PDFs")>>])
         /\ UNCHANGED <<seen_invoices, calls>>
    ELSE PdfsValidates(r, h, extracted,
                       reset_duplicate_tracking(seen_invoices))

\* extract_and_validate_pdfs starts, or resumes from `await file.read()`
RunPdfs(r) ==
    /\ handlers[r].endpoint = "extract_and_validate_pdfs"
    /\ handlers[r].at \in {"received", "reading"}
    /\ PdfsContinues(r, handlers[r], ExtractedOnResume(handlers[r]),
                     NextPdf(handlers[r].body, handlers[r].k + 1))

\* --- the event loop: requests arrive and handlers run in any order, one
\* at a time, each from one suspension to the next
JsonArrives == \E r \in 1..MaxRequests : PostValidateJson(r)

JsonHandlerRuns == \E r \in 1..MaxRequests : RunValidateJson(r)

PdfsArrive == \E r \in 1..MaxRequests : PostPdfs(r)

PdfsHandlerRuns == \E r \in 1..MaxRequests : RunPdfs(r)

NextApi == JsonArrives \/ JsonHandlerRuns \/ PdfsArrive \/ PdfsHandlerRuns

SpecApi == Init /\ [][NextApi]_vars

\* ------------------------------------------------------------------------
\* C25 : concurrent requests
\* ------------------------------------------------------------------------

\* the records of the request: the body, or the invoices extracted from the
\* uploaded PDF files, each on its own
RECURSIVE ExtractedFrom(_, _)
ExtractedFrom(files, k) ==
    IF k > Len(files) THEN <<>>
    ELSE (IF IsPdf(files[k])
          THEN extract_from_upload(files[k].text, files[k].stem)
          ELSE <<>>)
         \o ExtractedFrom(files, k + 1)

\* the report of the request as the handler returned it
ReportOf(h) ==
    IF h.endpoint = "validate_json" THEN h.response[1].content
    ELSE h.response[1].content.validation_report

\* the report of validating the records alone on a new validator
ReportAlone(invoices) == validate_batch({}, invoices).report

Answered(h) == h.at = "done" /\ h.response[1].status_code = 200

\* C25: in every interleaving of the requests handled on the one validator
\* of the module, the report a request is answered with is the report of
\* validating that request's records alone on a new validator
C25_RequestsReportAsAlone ==
    \A r \in 1..MaxRequests :
        Answered(handlers[r]) =>
            /\ handlers[r].endpoint = "validate_json" =>
                  ReportOf(handlers[r]) = ReportAlone(handlers[r].body)
            /\ handlers[r].endpoint = "extract_and_validate_pdfs" =>
                  /\ handlers[r].extracted = ExtractedFrom(handlers[r].body, 1)
                  /\ ReportOf(handlers[r]) = ReportAlone(handlers[r].extracted)

\* an upload of one invoice in two files arrived first and was answered
\* last: while it was in hand, a later upload of the same invoice was
\* validated.  The first request's report flags its own second file only.
C25_Witness ==
    /\ Answered(handlers[1])
    /\ Answered(handlers[2])
    /\ handlers[1].endpoint = "extract_and_validate_pdfs"
    /\ handlers[2].endpoint = "extract_and_validate_pdfs"
    /\ Len(handlers[1].extracted) = 2
    /\ Len(handlers[2].extracted) = 1
    /\ Len(calls) = 4
    /\ calls[2].arg = handlers[2].extracted
    /\ calls[4].arg = handlers[1].extracted
    /\ KeyAsText(handlers[2].extracted[1]) = KeyAsText(handlers[1].extracted[1])
    /\ calls[4].pre = {}
    /\ ReportOf(handlers[1]).results[1].is_valid
    /\ HasDuplicateError(ReportOf(handlers[1]).results[2])
    /\ ReportOf(handlers[2]).results[1].is_valid

\* ------------------------------------------------------------------------
\* C26 : the categories of the error strings
\* ------------------------------------------------------------------------

\* the categories of the error strings of the call that has just returned
CategoriesReturned ==
    {BeforeFirstColon(Latest.results[p[1]].errors[p[2]]) :
        p \in ErrorEntries(Latest)}

HasError(result, error) == \E m \in DOMAIN result.errors : result.errors[m] = error

StrippedFields == {"invoice_number", "seller_name", "buyer_name"}

====
